---- MODULE Spec2Model ----
(***************************************************************************)
(* State-machine model of the trivia game backend:                         *)
(*   backend/question_manager.py  QuestionManager  (question store)        *)
(*   backend/game_state.py        GameStateManager (session registry)      *)
(*   backend/websocket_manager.py WebSocketManager (directory, dispatcher) *)
(* One action per handler of WebSocketManager.handle_message, plus         *)
(* connect_client, disconnect_client and create_game.  Timestamps are not  *)
(* modelled; text is modelled as sequences of one-character strings so     *)
(* that str.strip() and str.lower() are computed, not assumed.             *)
(***************************************************************************)
EXTENDS Integers, Sequences, FiniteSets, TLC

\* ------------------------------------------------------------------------
\* Bounds and input sets
\* ------------------------------------------------------------------------
MaxTeams == 1
MaxScore == 2

GameIds == {"g1", "g2"}
Clients == {"c1", "c2"}
NoGame == "none"
NoTeam == 0
NoTarget == "none"
TeamIds == 1..MaxTeams

Passwords == {"p1", "p2"}
TeamNames == { <<>>, <<"a">>, <<" ", "A">> }
AnswerTexts == { <<>>, <<" ", "A">>, <<"b">> }
GradePoints == {1}
GradeCorrect == {"True", "False"}

\* ------------------------------------------------------------------------
\* Text helpers: str.strip() and str.lower()
\* ------------------------------------------------------------------------
RECURSIVE LStrip(_)
LStrip(s) ==
    IF s = <<>> THEN <<>>
    ELSE IF Head(s) = " " THEN LStrip(Tail(s)) ELSE s

RECURSIVE RStrip(_)
RStrip(s) ==
    IF s = <<>> THEN <<>>
    ELSE IF s[Len(s)] = " " THEN RStrip(SubSeq(s, 1, Len(s) - 1)) ELSE s

Strip(s) == RStrip(LStrip(s))

LowerChar(ch) ==
    IF ch = "A" THEN "a" ELSE IF ch = "B" THEN "b" ELSE ch

Lower(s) == [i \in DOMAIN s |-> LowerChar(s[i])]

\* ------------------------------------------------------------------------
\* Question store (question_manager.py)
\* ------------------------------------------------------------------------
Question(r, n, q, a) ==
    [round_num |-> r, question_num |-> n, question |-> q, answer |-> a]

\* The rows of the CSV file given to create_game for each game id.
CsvRows(gid) ==
    IF gid = "g1"
    THEN << Question(1, 1, <<"x">>, <<"a">>), Question(2, 1, <<"y">>, <<"b">>) >>
    ELSE << Question(1, 1, <<"z">>, <<"b">>) >>

\* The admin password given to create_game for each game id.
AdminPassword(gid) == IF gid = "g1" THEN "p1" ELSE "p2"

NoQuestion == Question(0, 0, <<>>, <<>>)

RECURSIVE FirstMatch(_, _, _)
FirstMatch(qs, r, n) ==
    IF qs = <<>> THEN NoQuestion
    ELSE IF Head(qs).round_num = r /\ Head(qs).question_num = n THEN Head(qs)
    ELSE FirstMatch(Tail(qs), r, n)

get_question_by_round_and_num(qs, r, n) == FirstMatch(qs, r, n)

get_questions_for_round(qs, r) ==
    SelectSeq(qs, LAMBDA q : q.round_num = r)

get_rounds_for_game(qs) == { qs[i].round_num : i \in DOMAIN qs }

MaxOf(S) == CHOOSE x \in S : \A y \in S : y <= x

\* ------------------------------------------------------------------------
\* Session registry (game_state.py)
\* ------------------------------------------------------------------------
WAITING == "waiting"
IN_PROGRESS == "in_progress"
QUESTION_ACTIVE == "question_active"
QUESTION_CLOSED == "question_closed"
FINISHED == "finished"

Team(id, name) == [team_id |-> id, name |-> name, score |-> 0]

Answer(tid, r, n, text) ==
    [team_id |-> tid, question_round |-> r, question_num |-> n,
     answer_text |-> text, is_correct |-> "None", points_awarded |-> 0]

GameSession(pw) ==
    [admin_password |-> pw, status |-> WAITING, teams |-> <<>>,
     current_round |-> 1, current_question |-> 1, answers |-> <<>>]

\* Result of a GameStateManager call: the value returned and the session
\* after the call, or the ValueError raised (the session is then as given).
Ok(game, ret) == [ok |-> TRUE, err |-> "", game |-> game, ret |-> ret]
Raise(game, msg) == [ok |-> FALSE, err |-> msg, game |-> game, ret |-> <<>>]

TeamIdsOf(game) == { game.teams[i].team_id : i \in DOMAIN game.teams }

TeamIndex(game, tid) == CHOOSE i \in DOMAIN game.teams : game.teams[i].team_id = tid

TeamOf(game, tid) == game.teams[TeamIndex(game, tid)]

\* Index of the first answer of the team for (round, question); 0 if none.
AnswerIndex(game, tid, r, n) ==
    LET hits == { i \in DOMAIN game.answers :
                      /\ game.answers[i].team_id = tid
                      /\ game.answers[i].question_round = r
                      /\ game.answers[i].question_num = n }
    IN IF hits = {} THEN 0 ELSE CHOOSE i \in hits : \A j \in hits : i <= j

HasTeamAnswer(game, tid, r, n) == AnswerIndex(game, tid, r, n) # 0

\* Variant of the name check of add_team that compares case-sensitively.
NameTaken_ExactCase(game, name) ==
    \E i \in DOMAIN game.teams : game.teams[i].name = name

NameTaken(game, name) ==
    \E i \in DOMAIN game.teams : Lower(game.teams[i].name) = Lower(name)

\* Variant without the status gate of add_team.
AddTeamOpen_Always(game) == TRUE

AddTeamOpen(game) == game.status = WAITING

add_team(game, team_name, new_id) ==
    IF ~AddTeamOpen(game)
    THEN Raise(game, "Cannot add teams after game has started")
    ELSE IF NameTaken(game, Strip(team_name))
    THEN Raise(game, "Team name already exists")
    ELSE IF Strip(team_name) = <<>>
    THEN Raise(game, "Team name cannot be empty")
    ELSE Ok([game EXCEPT !.teams = Append(@, Team(new_id, Strip(team_name)))],
            Team(new_id, Strip(team_name)))

\* Variant of start_game without the check for at least one team.
start_game_NoTeamCheck(game, pw) ==
    IF game.admin_password # pw THEN Raise(game, "Invalid admin password")
    ELSE IF game.status # WAITING THEN Raise(game, "Game has already started")
    ELSE Ok([game EXCEPT !.status = IN_PROGRESS], TRUE)

start_game(game, pw) ==
    IF game.admin_password # pw THEN Raise(game, "Invalid admin password")
    ELSE IF game.status # WAITING THEN Raise(game, "Game has already started")
    ELSE IF game.teams = <<>> THEN Raise(game, "Cannot start game with no teams")
    ELSE Ok([game EXCEPT !.status = IN_PROGRESS], TRUE)

\* Variant without the status gate of start_question.
StartQuestionOpen_AnyStatus(game) == TRUE

StartQuestionOpen(game) == game.status \in {IN_PROGRESS, QUESTION_CLOSED}

\* Variant that activates the cursor without looking the question up.
start_question_NoLookup(game, qs, pw) ==
    IF game.admin_password # pw THEN Raise(game, "Invalid admin password")
    ELSE IF ~StartQuestionOpen(game)
    THEN Raise(game, "Cannot start question in current game state")
    ELSE Ok([game EXCEPT !.status = QUESTION_ACTIVE],
            get_question_by_round_and_num(qs, game.current_round,
                                          game.current_question))

start_question(game, qs, pw) ==
    LET question == get_question_by_round_and_num(qs, game.current_round,
                                                  game.current_question)
    IN IF game.admin_password # pw THEN Raise(game, "Invalid admin password")
       ELSE IF ~StartQuestionOpen(game)
       THEN Raise(game, "Cannot start question in current game state")
       ELSE IF question = NoQuestion THEN Raise(game, "No question found")
       ELSE Ok([game EXCEPT !.status = QUESTION_ACTIVE], question)

SubmitOpen(game) == game.status = QUESTION_ACTIVE

\* Variant without the duplicate check of submit_answer.
AlreadyAnswered_Never(game, tid) == FALSE

AlreadyAnswered(game, tid) ==
    HasTeamAnswer(game, tid, game.current_round, game.current_question)

submit_answer(game, tid, text) ==
    IF ~SubmitOpen(game) THEN Raise(game, "No active question to answer")
    ELSE IF tid \notin TeamIdsOf(game) THEN Raise(game, "Team not found in this game")
    ELSE IF AlreadyAnswered(game, tid)
    THEN Raise(game, "Team has already submitted an answer for this question")
    ELSE LET answer == Answer(tid, game.current_round, game.current_question,
                              Strip(text))
         IN Ok([game EXCEPT !.answers = Append(@, answer)], answer)

\* Variant of the status check of close_question that accepts any status.
CloseOpen_AnyStatus(game) == TRUE

CloseOpen(game) == game.status = QUESTION_ACTIVE

\* Variant of close_question's result without the cursor filter.
CurrentAnswers_All(game) == game.answers

CurrentAnswers(game) ==
    SelectSeq(game.answers,
              LAMBDA a : /\ a.question_round = game.current_round
                         /\ a.question_num = game.current_question)

close_question(game, pw) ==
    IF game.admin_password # pw THEN Raise(game, "Invalid admin password")
    ELSE IF ~CloseOpen(game) THEN Raise(game, "No active question to close")
    ELSE Ok([game EXCEPT !.status = QUESTION_CLOSED], CurrentAnswers(game))

\* Variant of grade_answer that records the grade but never adds to the score.
grade_answer_NoScore(game, tid, r, n, is_correct, points) ==
    LET i == AnswerIndex(game, tid, r, n)
        awarded == IF is_correct = "True" THEN points ELSE 0
        graded == [game EXCEPT !.answers[i].is_correct = is_correct,
                               !.answers[i].points_awarded = awarded]
    IN IF i = 0 THEN Raise(game, "Answer not found")
       ELSE Ok(graded, graded.answers[i])

grade_answer(game, tid, r, n, is_correct, points) ==
    LET i == AnswerIndex(game, tid, r, n)
        awarded == IF is_correct = "True" THEN points ELSE 0
        graded == [game EXCEPT !.answers[i].is_correct = is_correct,
                               !.answers[i].points_awarded = awarded]
        k == TeamIndex(game, tid)
    IN IF i = 0 THEN Raise(game, "Answer not found")
       ELSE IF is_correct = "True"
       THEN Ok([graded EXCEPT !.teams[k].score = @ + points], graded.answers[i])
       ELSE Ok(graded, graded.answers[i])

next_question(game, qs, pw) ==
    LET questions_in_round == get_questions_for_round(qs, game.current_round)
        available_rounds == get_rounds_for_game(qs)
    IN IF game.admin_password # pw THEN Raise(game, "Invalid admin password")
       ELSE IF game.status # QUESTION_CLOSED
       THEN Raise(game, "Cannot advance to next question in current state")
       ELSE IF game.current_question < Len(questions_in_round)
       THEN LET g2 == [game EXCEPT !.current_question = @ + 1,
                                   !.status = IN_PROGRESS]
            IN Ok(g2, get_question_by_round_and_num(qs, g2.current_round,
                                                    g2.current_question))
       ELSE IF game.current_round < MaxOf(available_rounds)
       THEN LET g2 == [game EXCEPT !.current_round = @ + 1,
                                   !.current_question = 1,
                                   !.status = IN_PROGRESS]
            IN Ok(g2, get_question_by_round_and_num(qs, g2.current_round,
                                                    g2.current_question))
       ELSE Ok([game EXCEPT !.status = FINISHED], NoQuestion)

\* sorted(..., key=score, reverse=True) is stable: among equal scores the
\* dict (insertion) order of the teams is kept.
RECURSIVE InsertByScore(_, _)
InsertByScore(sorted, t) ==
    IF sorted = <<>> THEN <<t>>
    ELSE IF Head(sorted).score >= t.score
    THEN <<Head(sorted)>> \o InsertByScore(Tail(sorted), t)
    ELSE <<t>> \o sorted

RECURSIVE SortByScore(_)
SortByScore(ts) ==
    IF ts = <<>> THEN <<>>
    ELSE InsertByScore(SortByScore(SubSeq(ts, 1, Len(ts) - 1)), ts[Len(ts)])

\* Variant whose sort is not stable: equal scores come out in reverse
\* insertion order.
RECURSIVE ReverseSeq(_)
ReverseSeq(ts) ==
    IF ts = <<>> THEN <<>> ELSE ReverseSeq(Tail(ts)) \o <<Head(ts)>>

get_leaderboard_Unstable(game) == SortByScore(ReverseSeq(game.teams))

get_leaderboard(game) == SortByScore(game.teams)

get_game_summary(game, qs) ==
    [status |-> game.status, team_count |-> Len(game.teams),
     current_round |-> game.current_round,
     current_question |-> game.current_question,
     total_rounds |-> Cardinality(get_rounds_for_game(qs))]

\* ------------------------------------------------------------------------
\* State
\* ------------------------------------------------------------------------
VARIABLES
    questions,          \* QuestionManager.games: game id -> list of questions
    games,              \* GameStateManager.games: game id -> GameSession
    connections,        \* WebSocketManager.connections: client id -> connection
    game_connections,   \* WebSocketManager.game_connections: game id -> set
    next_team_id,       \* the next fresh team id (uuid4 in Team.team_id)
    issued,             \* client ids handed out so far (uuid4 in handle_connect)
    presented,          \* history: the games whose admin password each
                        \* connected client has presented in an event
    inflight            \* handler thread -> the position of the event it is
                        \* serving (socketio threading mode: one thread per
                        \* event, no lock in the backend)

\* Handler threads: python-socketio dispatches every received event to a
\* handler of its own; two are enough to interleave any two events.
Threads == {"t1", "t2"}
Idle == [pc |-> "idle"]

vars == <<questions, games, connections, game_connections, next_team_id,
          issued, presented, inflight>>

\* dict helpers
Put(d, k, v) == [x \in (DOMAIN d) \cup {k} |-> IF x = k THEN v ELSE d[x]]
Del(d, k) == [x \in (DOMAIN d) \ {k} |-> d[x]]

ClientConnection == [game_id |-> NoGame, team_id |-> NoTeam, is_admin |-> FALSE]

\* ------------------------------------------------------------------------
\* Messages (WebSocketMessage): event type and data dict.  A message whose
\* data has no "target_client" key goes to the client that sent the event.
\* ------------------------------------------------------------------------
Msg(type, data) == [event_type |-> type, data |-> data]
Error(text) == Msg("error", [message |-> text])

IsError(msgs) == \E i \in DOMAIN msgs : msgs[i].event_type = "error"
SingleError(msgs) == Len(msgs) = 1 /\ msgs[1].event_type = "error"

\* Iteration over the set game_connections[gid], in a fixed order.
ClientOrder == <<"c1", "c2">>
MembersSeq(gc, gid) == SelectSeq(ClientOrder, LAMBDA c : c \in gc[gid])

Map(f(_), s) == [i \in DOMAIN s |-> f(s[i])]

team_list(game) ==
    LET Entry(t) == [team_id |-> t.team_id, name |-> t.name, score |-> t.score]
    IN Map(Entry, game.teams)

leaderboard_data(ts) ==
    LET Entry(t) == [name |-> t.name, score |-> t.score]
    IN Map(Entry, ts)

\* What handle_message leaves behind and returns: the session registry, the
\* directory, and the list of messages (out), which is the single error
\* made from the exception when the handler raised.
Effect(g, c, gc, n, msgs) ==
    [games |-> g, connections |-> c, game_connections |-> gc,
     next_team_id |-> n, out |-> msgs]

Reply(msgs) == Effect(games, connections, game_connections, next_team_id, msgs)

\* A handler that raised after the registry had been changed to g.
RaisedAfter(g, text) ==
    Effect(g, connections, game_connections, next_team_id, <<Error(text)>>)

\* self.connections[target] raises KeyError for a member that is no longer
\* (or not yet again) in the directory.
MissingMember(gid) ==
    \E c \in game_connections[gid] : c \notin DOMAIN connections

\* ------------------------------------------------------------------------
\* Handlers of WebSocketManager (websocket_manager.py)
\* ------------------------------------------------------------------------
handle_join_game(c, gid, team_name) ==
    IF team_name = <<>>
    THEN Reply(<<Error("Missing game_id or team_name")>>)
    ELSE IF gid \notin DOMAIN games
    THEN Reply(<<Error("Game not found")>>)
    ELSE
      LET r == add_team(games[gid], team_name, next_team_id)
          conns == [connections EXCEPT ![c].game_id = gid,
                                       ![c].team_id = r.ret.team_id]
          members == IF gid \in DOMAIN game_connections
                     THEN game_connections[gid] ELSE {}
          gc == Put(game_connections, gid, members \cup {c})
          Update(target) ==
              Msg("team_list_update",
                  [teams |-> team_list(r.game), target_client |-> target])
      IN IF ~r.ok THEN Reply(<<Error(r.err)>>)
         ELSE Effect([games EXCEPT ![gid] = r.game], conns, gc,
                     next_team_id + 1,
                     <<Msg("team_joined",
                           [team_id |-> r.ret.team_id,
                            team_name |-> r.ret.name,
                            game_id |-> gid])>>
                     \o Map(Update, MembersSeq(gc, gid)))

PasswordAccepted(game, pw) == game.admin_password = pw

handle_admin_login(c, gid, pw) ==
    IF gid \notin DOMAIN games
    THEN Reply(<<Error("Game not found")>>)
    ELSE IF ~PasswordAccepted(games[gid], pw)
    THEN Reply(<<Error("Invalid admin password")>>)
    ELSE
      LET conns == [connections EXCEPT ![c].game_id = gid,
                                       ![c].is_admin = TRUE]
          members == IF gid \in DOMAIN game_connections
                     THEN game_connections[gid] ELSE {}
          gc == Put(game_connections, gid, members \cup {c})
      IN Effect(games, conns, gc, next_team_id,
                << Msg("success", [message |-> "Admin logged in successfully",
                                   game_id |-> gid, is_admin |-> TRUE]),
                   Msg("team_list_update", [teams |-> team_list(games[gid])]) >>)

AdminAccess(conn) == conn.is_admin

\* Variant that starts every game of the registry, not only the caller's.
handle_start_game_AllGames(c, pw) ==
    LET gid == connections[c].game_id
        r == start_game(games[gid], pw)
        g2 == [g \in DOMAIN games |->
                 IF g = gid THEN r.game
                 ELSE [games[g] EXCEPT !.status = IN_PROGRESS]]
        Started(target) ==
            Msg("game_started", [game_id |-> gid, status |-> r.game.status,
                                 target_client |-> target])
    IN IF ~AdminAccess(connections[c])
       THEN Reply(<<Error("Admin access required")>>)
       ELSE IF gid \notin DOMAIN games
       THEN Reply(<<Error("Game not found")>>)
       ELSE IF ~r.ok THEN Reply(<<Error(r.err)>>)
       ELSE IF gid \notin DOMAIN game_connections
       THEN RaisedAfter(g2, "KeyError")
       ELSE Effect(g2, connections, game_connections, next_team_id,
                   Map(Started, MembersSeq(game_connections, gid)))

handle_start_game(c, pw) ==
    LET gid == connections[c].game_id
        r == start_game(games[gid], pw)
        g2 == [games EXCEPT ![gid] = r.game]
        Started(target) ==
            Msg("game_started", [game_id |-> gid, status |-> r.game.status,
                                 target_client |-> target])
    IN IF ~AdminAccess(connections[c])
       THEN Reply(<<Error("Admin access required")>>)
       ELSE IF gid \notin DOMAIN games
       THEN Reply(<<Error("Game not found")>>)
       ELSE IF ~r.ok THEN Reply(<<Error(r.err)>>)
       ELSE IF gid \notin DOMAIN game_connections
       THEN RaisedAfter(g2, "KeyError")
       ELSE Effect(g2, connections, game_connections, next_team_id,
                   Map(Started, MembersSeq(game_connections, gid)))

\* The copy of question_started for one member: the admin's has the answer.
question_data(question, target) ==
    IF connections[target].is_admin
    THEN [round |-> question.round_num, question_num |-> question.question_num,
          question |-> question.question, answer |-> question.answer,
          target_client |-> target]
    ELSE [round |-> question.round_num, question_num |-> question.question_num,
          question |-> question.question, target_client |-> target]

handle_start_question(c, pw) ==
    LET gid == connections[c].game_id
        r == start_question(games[gid], questions[gid], pw)
        g2 == [games EXCEPT ![gid] = r.game]
        Started(target) == Msg("question_started", question_data(r.ret, target))
    IN IF ~AdminAccess(connections[c])
       THEN Reply(<<Error("Admin access required")>>)
       ELSE IF gid \notin DOMAIN games
       THEN Reply(<<Error("Game not found")>>)
       ELSE IF ~r.ok THEN Reply(<<Error(r.err)>>)
       ELSE IF gid \notin DOMAIN game_connections \/ MissingMember(gid)
       THEN RaisedAfter(g2, "KeyError")
       ELSE Effect(g2, connections, game_connections, next_team_id,
                   Map(Started, MembersSeq(game_connections, gid)))

\* Variant comparing the raw texts, without strip() and lower().
is_auto_correct_Exact(answer_text, correct_answer) ==
    answer_text = correct_answer

is_auto_correct(answer_text, correct_answer) ==
    Lower(Strip(answer_text)) = Lower(Strip(correct_answer))

\* The confirmation returned to the submitting team.
confirmation(answer_text) == Msg("answer_submitted", [answer |-> answer_text])

handle_submit_answer(c, answer_text) ==
    LET gid == connections[c].game_id
        tid == connections[c].team_id
        r == submit_answer(games[gid], tid, answer_text)
        g2 == [games EXCEPT ![gid] = r.game]
        question == get_question_by_round_and_num(
                        questions[gid], r.game.current_round,
                        r.game.current_question)
        correct_answer == IF question = NoQuestion THEN <<>> ELSE question.answer
        auto == IF question = NoQuestion THEN FALSE
                ELSE is_auto_correct(answer_text, correct_answer)
        Notify(target) ==
            Msg("answer_submitted",
                [team_name |-> TeamOf(r.game, tid).name, team_id |-> tid,
                 answer |-> answer_text, target_client |-> target,
                 is_auto_correct |-> auto, correct_answer |-> correct_answer])
        admins == SelectSeq(MembersSeq(game_connections, gid),
                            LAMBDA t : connections[t].is_admin)
    IN IF tid = NoTeam
       THEN Reply(<<Error("Must be part of a team to submit answers")>>)
       ELSE IF answer_text = <<>>
       THEN Reply(<<Error("Answer cannot be empty")>>)
       ELSE IF gid \notin DOMAIN games
       THEN Reply(<<Error("Game not found")>>)
       ELSE IF ~r.ok THEN Reply(<<Error(r.err)>>)
       ELSE IF gid \notin DOMAIN game_connections \/ MissingMember(gid)
       THEN RaisedAfter(g2, "KeyError")
       ELSE Effect(g2, connections, game_connections, next_team_id,
                   <<confirmation(answer_text)>> \o Map(Notify, admins))

\* Optional[str] values of a message: <<>> is None, <<text>> is text.
None == <<>>
Some(text) == <<text>>

\* The answer of the target's team among the closed question's answers.
team_result(answers, tid) ==
    LET hits == { i \in DOMAIN answers : answers[i].team_id = tid }
        first == CHOOSE i \in hits : \A j \in hits : i <= j
    IN IF hits = {}
       THEN [team_answer |-> None, team_correct |-> "None"]
       ELSE [team_answer |-> Some(answers[first].answer_text),
             team_correct |-> answers[first].is_correct]

\* The copy of question_closed for one member.
closed_data(game, answers, question, leaderboard, target) ==
    LET AnswerData(a) ==
            [team_id |-> a.team_id, team_name |-> TeamOf(game, a.team_id).name,
             answer |-> a.answer_text, is_correct |-> a.is_correct,
             points_awarded |-> a.points_awarded]
        mine == team_result(answers, connections[target].team_id)
    IN IF connections[target].is_admin
       THEN [answers |-> Map(AnswerData, answers), target_client |-> target]
       ELSE [correct_answer |-> IF question = NoQuestion
                                THEN <<"N", "/", "A">> ELSE question.answer,
             team_answer |-> mine.team_answer,
             team_correct |-> mine.team_correct,
             leaderboard |-> leaderboard,
             message |-> "Question results",
             target_client |-> target]

handle_close_question(c, pw) ==
    LET gid == connections[c].game_id
        r == close_question(games[gid], pw)
        g2 == [games EXCEPT ![gid] = r.game]
        current_question == get_question_by_round_and_num(
                                questions[gid], r.game.current_round,
                                r.game.current_question)
        leaderboard == leaderboard_data(SortByScore(r.game.teams))
        Closed(target) ==
            Msg("question_closed",
                closed_data(r.game, r.ret, current_question, leaderboard, target))
        Board(target) ==
            Msg("leaderboard_update",
                [leaderboard |-> leaderboard, target_client |-> target])
    IN IF ~AdminAccess(connections[c])
       THEN Reply(<<Error("Admin access required")>>)
       ELSE IF gid \notin DOMAIN games
       THEN Reply(<<Error("Game not found")>>)
       ELSE IF ~r.ok THEN Reply(<<Error(r.err)>>)
       ELSE IF gid \notin DOMAIN game_connections \/ MissingMember(gid)
       THEN RaisedAfter(g2, "KeyError")
       ELSE Effect(g2, connections, game_connections, next_team_id,
                   Map(Closed, MembersSeq(game_connections, gid))
                   \o Map(Board, MembersSeq(game_connections, gid)))

handle_grade_answer(c, tid, round_num, question_num, is_correct, points) ==
    LET gid == connections[c].game_id
        r == grade_answer(games[gid], tid, round_num, question_num,
                          is_correct, points)
        g2 == [games EXCEPT ![gid] = r.game]
        team == TeamOf(r.game, tid)
        Graded(target) ==
            Msg("answer_graded",
                [team_id |-> tid, team_name |-> team.name,
                 is_correct |-> is_correct,
                 points_awarded |-> r.ret.points_awarded,
                 new_score |-> team.score, target_client |-> target])
    IN IF ~AdminAccess(connections[c])
       THEN Reply(<<Error("Admin access required")>>)
       ELSE IF gid \notin DOMAIN games
       THEN Reply(<<Error("Game not found")>>)
       ELSE IF ~r.ok THEN Reply(<<Error(r.err)>>)
       ELSE IF gid \notin DOMAIN game_connections
       THEN RaisedAfter(g2, "KeyError")
       ELSE Effect(g2, connections, game_connections, next_team_id,
                   Map(Graded, MembersSeq(game_connections, gid)))

\* Variant answering the caller with success also when the game finished.
handle_next_question_AlwaysSuccess(c, pw) ==
    LET gid == connections[c].game_id
        r == next_question(games[gid], questions[gid], pw)
        g2 == [games EXCEPT ![gid] = r.game]
    IN IF ~AdminAccess(connections[c])
       THEN Reply(<<Error("Admin access required")>>)
       ELSE IF gid \notin DOMAIN games
       THEN Reply(<<Error("Game not found")>>)
       ELSE IF ~r.ok THEN Reply(<<Error(r.err)>>)
       ELSE Effect(g2, connections, game_connections, next_team_id,
                   <<Msg("success",
                         [message |-> "Moved to next question",
                          current_round |-> r.game.current_round,
                          current_question |-> r.game.current_question])>>)

handle_next_question(c, pw) ==
    LET gid == connections[c].game_id
        r == next_question(games[gid], questions[gid], pw)
        g2 == [games EXCEPT ![gid] = r.game]
        Finished(target) ==
            Msg("game_finished",
                [final_leaderboard |-> leaderboard_data(get_leaderboard(r.game)),
                 target_client |-> target])
    IN IF ~AdminAccess(connections[c])
       THEN Reply(<<Error("Admin access required")>>)
       ELSE IF gid \notin DOMAIN games
       THEN Reply(<<Error("Game not found")>>)
       ELSE IF ~r.ok THEN Reply(<<Error(r.err)>>)
       ELSE IF r.game.status = FINISHED
       THEN IF gid \notin DOMAIN game_connections
            THEN RaisedAfter(g2, "KeyError")
            ELSE Effect(g2, connections, game_connections, next_team_id,
                        Map(Finished, MembersSeq(game_connections, gid)))
       ELSE Effect(g2, connections, game_connections, next_team_id,
                   <<Msg("success",
                         [message |-> "Moved to next question",
                          current_round |-> r.game.current_round,
                          current_question |-> r.game.current_question])>>)

\* Variant that sends the leaderboard to every member of the game.
handle_get_leaderboard_Broadcast(c) ==
    LET gid == connections[c].game_id
        Board(target) ==
            Msg("leaderboard_update",
                [leaderboard |-> leaderboard_data(get_leaderboard(games[gid])),
                 target_client |-> target])
    IN IF gid = NoGame THEN Reply(<<Error("Not in a game")>>)
       ELSE IF gid \notin DOMAIN games THEN Reply(<<Error("Game not found")>>)
       ELSE Reply(Map(Board, MembersSeq(game_connections, gid)))

handle_get_leaderboard(c) ==
    LET gid == connections[c].game_id
    IN IF gid = NoGame THEN Reply(<<Error("Not in a game")>>)
       ELSE IF gid \notin DOMAIN games THEN Reply(<<Error("Game not found")>>)
       ELSE Reply(<<Msg("leaderboard_update",
                        [leaderboard |->
                             leaderboard_data(get_leaderboard(games[gid]))])>>)

handle_get_game_state(c) ==
    LET gid == connections[c].game_id
    IN IF gid = NoGame THEN Reply(<<Error("Not in a game")>>)
       ELSE IF gid \notin DOMAIN games THEN Reply(<<Error("Game not found")>>)
       ELSE Reply(<<Msg("success",
                        [game_state |->
                             get_game_summary(games[gid], questions[gid])])>>)

\* ------------------------------------------------------------------------
\* Actions
\* ------------------------------------------------------------------------
Init ==
    /\ questions = <<>>
    /\ games = <<>>
    /\ connections = <<>>
    /\ game_connections = <<>>
    /\ next_team_id = 1
    /\ issued = {}
    /\ presented = [c \in Clients |-> {}]
    /\ inflight = [t \in Threads |-> Idle]

\* POST /api/create-game -> GameStateManager.create_game
CreateGame(gid) ==
    /\ gid \notin DOMAIN games
    /\ questions' = Put(questions, gid, CsvRows(gid))
    /\ games' = Put(games, gid, GameSession(AdminPassword(gid)))
    /\ UNCHANGED <<connections, game_connections, next_team_id, issued, presented,
                   inflight>>

\* handle_connect: a fresh client id, registered by connect_client
connect_client(c) ==
    /\ c \notin issued
    /\ c \notin DOMAIN connections
    /\ issued' = issued \cup {c}
    /\ connections' = Put(connections, c, ClientConnection)
    /\ UNCHANGED <<questions, games, game_connections, next_team_id, presented,
                   inflight>>

\* game_connections after discarding c from the set of gid (the key is
\* deleted with its last member).
Discard(gc, gid, c) ==
    IF gc[gid] \ {c} = {} THEN Del(gc, gid)
    ELSE [gc EXCEPT ![gid] = @ \ {c}]

\* Variant of disconnect_client that also deletes the client's team.
disconnect_client_DropsTeam(c) ==
    /\ c \in DOMAIN connections
    /\ connections' = Del(connections, c)
    /\ game_connections' =
          IF connections[c].game_id \in DOMAIN game_connections
          THEN Discard(game_connections, connections[c].game_id, c)
          ELSE game_connections
    /\ games' = [gid \in DOMAIN games |->
                   [games[gid] EXCEPT !.teams =
                       SelectSeq(@, LAMBDA t : t.team_id # connections[c].team_id)]]
    /\ presented' = [presented EXCEPT ![c] = {}]
    /\ UNCHANGED <<questions, next_team_id, issued, inflight>>

disconnect_client(c) ==
    /\ c \in DOMAIN connections
    /\ LET gid == connections[c].game_id
       IN IF gid = NoGame
          THEN /\ connections' = Del(connections, c)
               /\ UNCHANGED game_connections
          ELSE IF gid \notin DOMAIN game_connections
          THEN UNCHANGED <<connections, game_connections>>
          ELSE /\ game_connections' = Discard(game_connections, gid, c)
               /\ connections' = Del(connections, c)
    /\ presented' = IF connections' = connections THEN presented
                    ELSE [presented EXCEPT ![c] = {}]
    /\ UNCHANGED <<questions, games, next_team_id, issued, inflight>>

NotConnected == Reply(<<Error("Client not connected")>>)

\* handle_message(client_id, message) for each event type: the handler's
\* effect, or the one error for a client that is not in the directory.
join_game(c, gid, team_name) ==
    IF c \in DOMAIN connections
    THEN handle_join_game(c, gid, team_name) ELSE NotConnected

admin_login(c, gid, pw) ==
    IF c \in DOMAIN connections THEN handle_admin_login(c, gid, pw) ELSE NotConnected

start_game_event(c, pw) ==
    IF c \in DOMAIN connections THEN handle_start_game(c, pw) ELSE NotConnected

start_question_event(c, pw) ==
    IF c \in DOMAIN connections THEN handle_start_question(c, pw) ELSE NotConnected

submit_answer_event(c, answer_text) ==
    IF c \in DOMAIN connections
    THEN handle_submit_answer(c, answer_text) ELSE NotConnected

close_question_event(c, pw) ==
    IF c \in DOMAIN connections THEN handle_close_question(c, pw) ELSE NotConnected

grade_answer_event(c, tid, round_num, question_num, is_correct, points) ==
    IF c \in DOMAIN connections
    THEN handle_grade_answer(c, tid, round_num, question_num, is_correct, points)
    ELSE NotConnected

next_question_event(c, pw) ==
    IF c \in DOMAIN connections THEN handle_next_question(c, pw) ELSE NotConnected

get_leaderboard_event(c) ==
    IF c \in DOMAIN connections THEN handle_get_leaderboard(c) ELSE NotConnected

get_game_state_event(c) ==
    IF c \in DOMAIN connections THEN handle_get_game_state(c) ELSE NotConnected

\* An event type without a handler (a server-to-client type sent inbound).
unknown_event(c) ==
    IF c \in DOMAIN connections
    THEN Reply(<<Error("Unknown event type")>>) ELSE NotConnected

Apply(eff) ==
    /\ games' = eff.games
    /\ connections' = eff.connections
    /\ game_connections' = eff.game_connections
    /\ next_team_id' = eff.next_team_id
    /\ UNCHANGED <<questions, issued, inflight>>

ScoresInRange(g) ==
    \A gid \in DOMAIN g : \A i \in DOMAIN g[gid].teams :
        /\ g[gid].teams[i].score <= MaxScore
        /\ g[gid].teams[i].score >= 0 - MaxScore

JoinGame(c, gid, team_name) ==
    /\ join_game(c, gid, team_name).next_team_id <= MaxTeams + 1
    /\ Apply(join_game(c, gid, team_name))
    /\ UNCHANGED presented

\* The history after client c sent password pw in an event about game gid.
Presenting(c, gid, pw) ==
    IF /\ c \in DOMAIN connections
       /\ gid \in DOMAIN games
       /\ games[gid].admin_password = pw
    THEN [presented EXCEPT ![c] = @ \cup {gid}]
    ELSE presented

PresentingToOwnGame(c, pw) ==
    IF c \in DOMAIN connections
    THEN Presenting(c, connections[c].game_id, pw) ELSE presented

AdminLogin(c, gid, pw) ==
    /\ Apply(admin_login(c, gid, pw))
    /\ presented' = Presenting(c, gid, pw)

StartGame(c, pw) ==
    /\ Apply(start_game_event(c, pw))
    /\ presented' = PresentingToOwnGame(c, pw)

StartQuestion(c, pw) ==
    /\ Apply(start_question_event(c, pw))
    /\ presented' = PresentingToOwnGame(c, pw)

SubmitAnswer(c, answer_text) ==
    Apply(submit_answer_event(c, answer_text)) /\ UNCHANGED presented

CloseQuestion(c, pw) ==
    /\ Apply(close_question_event(c, pw))
    /\ presented' = PresentingToOwnGame(c, pw)

GradeAnswer(c, tid, round_num, question_num, is_correct, points) ==
    /\ ScoresInRange(grade_answer_event(c, tid, round_num, question_num,
                                        is_correct, points).games)
    /\ Apply(grade_answer_event(c, tid, round_num, question_num,
                                is_correct, points))
    /\ UNCHANGED presented

NextQuestion(c, pw) ==
    /\ Apply(next_question_event(c, pw))
    /\ presented' = PresentingToOwnGame(c, pw)

GetLeaderboard(c) == Apply(get_leaderboard_event(c)) /\ UNCHANGED presented

GetGameState(c) == Apply(get_game_state_event(c)) /\ UNCHANGED presented

UnknownEvent(c) == Apply(unknown_event(c)) /\ UNCHANGED presented

GradeRounds == {1, 2}
GradeQuestions == {1}

Next ==
    \/ \E gid \in GameIds : CreateGame(gid)
    \/ \E c \in Clients : connect_client(c)
    \/ \E c \in Clients : disconnect_client(c)
    \/ \E c \in Clients, gid \in GameIds, n \in TeamNames : JoinGame(c, gid, n)
    \/ \E c \in Clients, gid \in GameIds, pw \in Passwords : AdminLogin(c, gid, pw)
    \/ \E c \in Clients, pw \in Passwords : StartGame(c, pw)
    \/ \E c \in Clients, pw \in Passwords : StartQuestion(c, pw)
    \/ \E c \in Clients, t \in AnswerTexts : SubmitAnswer(c, t)
    \/ \E c \in Clients, pw \in Passwords : CloseQuestion(c, pw)
    \/ \E c \in Clients, tid \in TeamIds, r \in GradeRounds, n \in GradeQuestions,
          ok \in GradeCorrect, p \in GradePoints :
          GradeAnswer(c, tid, r, n, ok, p)
    \/ \E c \in Clients, pw \in Passwords : NextQuestion(c, pw)
    \/ \E c \in Clients : GetLeaderboard(c)
    \/ \E c \in Clients : GetGameState(c)
    \/ \E c \in Clients : UnknownEvent(c)

Spec == Init /\ [][Next]_vars

\* ------------------------------------------------------------------------
\* Properties
\* ------------------------------------------------------------------------
HasTarget(m) == "target_client" \in DOMAIN m.data

\* The game a connected client's events act on, if it has one.
InGame(c) ==
    /\ c \in DOMAIN connections
    /\ connections[c].game_id \in DOMAIN games

GameOf(c) == games[connections[c].game_id]

\* C1: a game never holds two Answers of one team for one (round, question),
\* and a submit_answer event of a team that has already answered the current
\* question returns one error and leaves every session as it was.
C1_OneAnswerPerQuestion ==
    /\ \A gid \in DOMAIN games :
         \A i, j \in DOMAIN games[gid].answers :
            ( /\ games[gid].answers[i].team_id = games[gid].answers[j].team_id
              /\ games[gid].answers[i].question_round
                     = games[gid].answers[j].question_round
              /\ games[gid].answers[i].question_num
                     = games[gid].answers[j].question_num ) => i = j
    /\ \A c \in Clients, t \in AnswerTexts :
         ( /\ InGame(c)
           /\ \E i \in DOMAIN GameOf(c).answers :
                 /\ GameOf(c).answers[i].team_id = connections[c].team_id
                 /\ GameOf(c).answers[i].question_round = GameOf(c).current_round
                 /\ GameOf(c).answers[i].question_num = GameOf(c).current_question )
         => /\ SingleError(submit_answer_event(c, t).out)
            /\ submit_answer_event(c, t).games = games

\* C1 witness: a question is active and a connected team client has already
\* answered it, so that a second submission is refused.
C1_Witness ==
    \E c \in Clients :
        /\ InGame(c)
        /\ GameOf(c).status = QUESTION_ACTIVE
        /\ \E i \in DOMAIN GameOf(c).answers :
              /\ GameOf(c).answers[i].team_id = connections[c].team_id
              /\ GameOf(c).answers[i].question_round = GameOf(c).current_round
              /\ GameOf(c).answers[i].question_num = GameOf(c).current_question
        /\ submit_answer_event(c, <<"b">>).out
             = <<Error("Team has already submitted an answer for this question")>>

\* The session fields a failed call must leave alone.
SameSession(g1, g2) ==
    /\ g1.status = g2.status
    /\ g1.current_round = g2.current_round
    /\ g1.current_question = g2.current_question
    /\ g1.teams = g2.teams
    /\ g1.answers = g2.answers

\* An event's effect changed nothing in any session and returned one error.
Refused(eff) ==
    /\ SingleError(eff.out)
    /\ DOMAIN eff.games = DOMAIN games
    /\ \A gid \in DOMAIN games : SameSession(eff.games[gid], games[gid])

\* An event went through: it returned no error, or it changed a session.
Accepted(eff) == ~IsError(eff.out) \/ eff.games # games

\* C2: start_question is accepted only in status in_progress or
\* question_closed, submit_answer and close_question only in status
\* question_active; in any other status each is refused: one error, and
\* status, cursor, teams and answers unchanged.
C2_StateGating ==
    /\ \A c \in Clients, pw \in Passwords :
         /\ Accepted(start_question_event(c, pw))
              => InGame(c) /\ GameOf(c).status \in {IN_PROGRESS, QUESTION_CLOSED}
         /\ (InGame(c) /\ GameOf(c).status \notin {IN_PROGRESS, QUESTION_CLOSED})
              => Refused(start_question_event(c, pw))
         /\ Accepted(close_question_event(c, pw))
              => InGame(c) /\ GameOf(c).status = QUESTION_ACTIVE
         /\ (InGame(c) /\ GameOf(c).status # QUESTION_ACTIVE)
              => Refused(close_question_event(c, pw))
    /\ \A c \in Clients, t \in AnswerTexts :
         /\ Accepted(submit_answer_event(c, t))
              => InGame(c) /\ GameOf(c).status = QUESTION_ACTIVE
         /\ (InGame(c) /\ GameOf(c).status # QUESTION_ACTIVE)
              => Refused(submit_answer_event(c, t))

\* C2 witness: while a question is active an admin with the right password
\* is refused start_question, and a team of the same game that has not
\* answered yet has its submit_answer accepted.
C2_Witness ==
    \E c, d \in Clients :
        /\ InGame(c) /\ InGame(d)
        /\ connections[c].game_id = connections[d].game_id
        /\ connections[c].is_admin
        /\ GameOf(c).status = QUESTION_ACTIVE
        /\ start_question_event(c, GameOf(c).admin_password).out
             = <<Error("Cannot start question in current game state")>>
        /\ submit_answer_event(d, <<"b">>).games # games

\* An admin member of the game: a connected member of it that is flagged
\* admin and has presented the game's admin password.
AdminMemberOf(c, gid) ==
    /\ c \in DOMAIN connections
    /\ gid \in DOMAIN game_connections
    /\ c \in game_connections[gid]
    /\ connections[c].is_admin
    /\ gid \in presented[c]

\* The messages of an effect that carry the correct answer of a question.
CarriesAnswer(m) ==
    \/ m.event_type = "question_started" /\ "answer" \in DOMAIN m.data
    \/ m.event_type = "answer_submitted" /\ "correct_answer" \in DOMAIN m.data

AnswerOnlyToAdmins(c, eff) ==
    \A i \in DOMAIN eff.out :
        CarriesAnswer(eff.out[i])
        => /\ HasTarget(eff.out[i])
           /\ AdminMemberOf(eff.out[i].data.target_client, connections[c].game_id)

\* C3: a question_started or answer_submitted message carries the correct
\* answer only if it is addressed to an admin member of the game; no copy
\* addressed to a team client of the game carries it.
C3_AnswerOnlyToAdmins ==
    /\ \A c \in Clients, pw \in Passwords :
          AnswerOnlyToAdmins(c, start_question_event(c, pw))
    /\ \A c \in Clients, t \in AnswerTexts :
          AnswerOnlyToAdmins(c, submit_answer_event(c, t))

\* An effect that is an error is exactly one error and changes neither the
\* sessions nor the directory.
FailsCleanly(eff) ==
    IsError(eff.out)
    => /\ SingleError(eff.out)
       /\ eff.games = games
       /\ eff.next_team_id = next_team_id
       /\ eff.connections = connections
       /\ eff.game_connections = game_connections

\* C4: whenever handle_message returns an error, it returns exactly one
\* error and has changed neither a session nor the connection directory.
C4_NoPartialMutation ==
    /\ \A c \in Clients, gid \in GameIds, n \in TeamNames :
          FailsCleanly(join_game(c, gid, n))
    /\ \A c \in Clients, gid \in GameIds, pw \in Passwords :
          FailsCleanly(admin_login(c, gid, pw))
    /\ \A c \in Clients, pw \in Passwords :
          /\ FailsCleanly(start_game_event(c, pw))
          /\ FailsCleanly(start_question_event(c, pw))
          /\ FailsCleanly(close_question_event(c, pw))
          /\ FailsCleanly(next_question_event(c, pw))
    /\ \A c \in Clients, t \in AnswerTexts :
          FailsCleanly(submit_answer_event(c, t))
    /\ \A c \in Clients, tid \in TeamIds, r \in GradeRounds, n \in GradeQuestions,
          ok \in GradeCorrect, p \in GradePoints :
          FailsCleanly(grade_answer_event(c, tid, r, n, ok, p))
    /\ \A c \in Clients :
          /\ FailsCleanly(get_leaderboard_event(c))
          /\ FailsCleanly(get_game_state_event(c))
          /\ FailsCleanly(unknown_event(c))

\* A mutating call on a finished session is refused with an
\* invalid-state error.
InvalidStateErrors ==
    { "Cannot add teams after game has started",
      "Game has already started",
      "Cannot start question in current game state",
      "No active question to answer",
      "No active question to close",
      "Cannot advance to next question in current state" }

RefusedAsInvalidState(eff) ==
    /\ Refused(eff)
    /\ eff.out[1].data.message \in InvalidStateErrors

\* C5: on a finished session every mutating call (join_game, start_game,
\* start_question, submit_answer, close_question, grade_answer,
\* next_question) of a member with the right password fails with an
\* invalid-state error and leaves the session, which stays finished,
\* unchanged.
C5_FinishedIsTerminal ==
    \A c \in Clients :
        (InGame(c) /\ GameOf(c).status = FINISHED)
        => LET pw == GameOf(c).admin_password
           IN /\ \A n \in TeamNames \ {<<>>} :
                    RefusedAsInvalidState(join_game(c, connections[c].game_id, n))
              /\ connections[c].is_admin
                 => /\ RefusedAsInvalidState(start_game_event(c, pw))
                    /\ RefusedAsInvalidState(start_question_event(c, pw))
                    /\ RefusedAsInvalidState(close_question_event(c, pw))
                    /\ RefusedAsInvalidState(next_question_event(c, pw))
                    /\ \A tid \in TeamIds, r \in GradeRounds, n \in GradeQuestions,
                          ok \in GradeCorrect, p \in GradePoints :
                          Refused(grade_answer_event(c, tid, r, n, ok, p))
              /\ connections[c].team_id \in TeamIdsOf(GameOf(c))
                 => \A t \in AnswerTexts \ {<<>>} :
                       RefusedAsInvalidState(submit_answer_event(c, t))

\* The caller is flagged admin and acts on a game whose admin password it
\* has presented.
HasAdminRights(c) ==
    /\ InGame(c)
    /\ connections[c].is_admin
    /\ connections[c].game_id \in presented[c]

\* An admin-gated event carrying a password changes a session only for an
\* admin caller supplying the session's password, and is refused otherwise.
PasswordGated(c, pw, eff) ==
    /\ eff.games # games
         => /\ InGame(c)
            /\ connections[c].is_admin
            /\ pw = GameOf(c).admin_password
    /\ ( /\ c \in DOMAIN connections
         /\ \/ ~connections[c].is_admin
            \/ InGame(c) /\ pw # GameOf(c).admin_password )
         => Refused(eff)

\* C6: start_game, start_question, close_question, grade_answer and
\* next_question change a session only when the caller is an admin that has
\* presented that session's admin password; a call of a non-admin client or
\* with another password is refused with one error and changes no session.
C6_AdminSecretRequired ==
    /\ \A c \in Clients, pw \in Passwords :
          /\ PasswordGated(c, pw, start_game_event(c, pw))
          /\ PasswordGated(c, pw, start_question_event(c, pw))
          /\ PasswordGated(c, pw, close_question_event(c, pw))
          /\ PasswordGated(c, pw, next_question_event(c, pw))
    /\ \A c \in Clients, tid \in TeamIds, r \in GradeRounds, n \in GradeQuestions,
          ok \in GradeCorrect, p \in GradePoints :
          LET eff == grade_answer_event(c, tid, r, n, ok, p)
          IN /\ eff.games # games => HasAdminRights(c)
             /\ (c \in DOMAIN connections /\ ~connections[c].is_admin)
                  => Refused(eff)

\* The sum of points_awarded over the answers of team tid.
RECURSIVE PointsOf(_, _)
PointsOf(answers, tid) ==
    IF answers = <<>> THEN 0
    ELSE (IF Head(answers).team_id = tid THEN Head(answers).points_awarded ELSE 0)
         + PointsOf(Tail(answers), tid)

\* C7: in every reachable state the score of every team equals the sum of
\* points_awarded over that team's answers (an answer is graded once and a
\* correct grade adds its points to the score once).
C7_ScoreIsSumOfPoints ==
    \A gid \in DOMAIN games :
        \A k \in DOMAIN games[gid].teams :
            games[gid].teams[k].score
                = PointsOf(games[gid].answers, games[gid].teams[k].team_id)

\* The indices of the answers of a session given to its current question.
AtCursor(game) ==
    { i \in DOMAIN game.answers :
         /\ game.answers[i].question_round = game.current_round
         /\ game.answers[i].question_num = game.current_question }

MatchesCorrect(a, question) ==
    /\ question # NoQuestion
    /\ Lower(Strip(a.answer_text)) = Lower(Strip(question.answer))

\* C9: after an accepted close_question, with no grade_answer call, every
\* answer to the current question whose text matches the stored correct
\* answer has is_correct True and points_awarded 1 and its team's score is
\* one higher, and every other answer to it has is_correct False and
\* points_awarded 0.
C9_CloseGradesAutomatically ==
    \A c \in Clients, pw \in Passwords :
        LET eff == close_question_event(c, pw)
        IN eff.games # games
           => LET gid == connections[c].game_id
                  old == games[gid]
                  new == eff.games[gid]
                  question == get_question_by_round_and_num(
                                  questions[gid], old.current_round,
                                  old.current_question)
              IN \A i \in AtCursor(old) :
                    ( /\ old.answers[i].is_correct = "None"
                      /\ i \in DOMAIN new.answers )
                    => IF MatchesCorrect(old.answers[i], question)
                       THEN /\ new.answers[i].is_correct = "True"
                            /\ new.answers[i].points_awarded = 1
                            /\ TeamOf(new, old.answers[i].team_id).score
                                 = TeamOf(old, old.answers[i].team_id).score + 1
                       ELSE /\ new.answers[i].is_correct = "False"
                            /\ new.answers[i].points_awarded = 0

\* C10: an accepted submit_answer appends one answer with correctness unset
\* and no points and changes no team or score; the confirmation returned to
\* the submitting team carries the answer only; and the is_auto_correct flag
\* of every admin notification is true exactly when the submitted text
\* equals the stored correct answer after trimming and ignoring case.
C10_AutoCorrectIsAdvisory ==
    \A c \in Clients, t \in AnswerTexts :
        LET eff == submit_answer_event(c, t)
        IN eff.games # games
           => LET gid == connections[c].game_id
                  old == games[gid]
                  new == eff.games[gid]
                  question == get_question_by_round_and_num(
                                  questions[gid], old.current_round,
                                  old.current_question)
              IN /\ Len(new.answers) = Len(old.answers) + 1
                 /\ SubSeq(new.answers, 1, Len(old.answers)) = old.answers
                 /\ new.answers[Len(new.answers)].is_correct = "None"
                 /\ new.answers[Len(new.answers)].points_awarded = 0
                 /\ new.teams = old.teams
                 /\ \A other \in DOMAIN games \ {gid} :
                       eff.games[other] = games[other]
                 /\ ~IsError(eff.out)
                    => /\ eff.out[1].event_type = "answer_submitted"
                       /\ DOMAIN eff.out[1].data = {"answer"}
                       /\ \A i \in 2..Len(eff.out) :
                             /\ eff.out[i].event_type = "answer_submitted"
                             /\ connections[eff.out[i].data.target_client].is_admin
                             /\ eff.out[i].data.is_auto_correct
                                  = ( /\ question # NoQuestion
                                      /\ Lower(Strip(t))
                                           = Lower(Strip(question.answer)) )

\* C10 witness: a team client can submit an answer that differs from the
\* stored answer only in case and surrounding blanks, and an admin of the
\* game is notified with the flag set.
C10_Witness ==
    \E c \in Clients :
        /\ InGame(c)
        /\ GameOf(c).status = QUESTION_ACTIVE
        /\ LET eff == submit_answer_event(c, <<" ", "A">>)
           IN /\ eff.games # games
              /\ Len(eff.out) >= 2
              /\ eff.out[2].data.is_auto_correct

\* The indices of the answers of team tid to question (r, n) of a session.
AnswersOf(game, tid, r, n) ==
    { i \in DOMAIN game.answers :
         /\ game.answers[i].team_id = tid
         /\ game.answers[i].question_round = r
         /\ game.answers[i].question_num = n }

\* C11: in any status, grade_answer on an existing answer sets its
\* is_correct to the given value; when correct it sets points_awarded to
\* points and adds points to the team's score on every call, also on an
\* answer that is already graded; when not correct it sets points_awarded
\* to 0 and leaves every score alone; when no answer matches
\* (team, round, question) it fails and changes nothing.
C11_GradeAnswerEffect ==
    \A gid \in DOMAIN games, tid \in TeamIds, r \in GradeRounds,
       n \in GradeQuestions, ok \in GradeCorrect, p \in GradePoints :
        LET old == games[gid]
            res == grade_answer(old, tid, r, n, ok, p)
            new == res.game
            hits == AnswersOf(old, tid, r, n)
        IN IF hits = {}
           THEN ~res.ok /\ new = old
           ELSE /\ res.ok
                /\ new.status = old.status
                /\ new.current_round = old.current_round
                /\ new.current_question = old.current_question
                /\ DOMAIN new.answers = DOMAIN old.answers
                /\ \A i \in DOMAIN old.answers :
                      IF i \in hits
                      THEN /\ new.answers[i].is_correct = ok
                           /\ new.answers[i].points_awarded
                                = (IF ok = "True" THEN p ELSE 0)
                           /\ new.answers[i].answer_text
                                = old.answers[i].answer_text
                      ELSE new.answers[i] = old.answers[i]
                /\ \A k \in DOMAIN old.teams :
                      new.teams[k].score
                        = old.teams[k].score
                          + (IF ok = "True" /\ old.teams[k].team_id = tid
                             THEN p ELSE 0)
                /\ DOMAIN new.teams = DOMAIN old.teams

\* C11 witness: a session whose question is closed holds an answer that is
\* already graded correct, and grading it correct again adds the point a
\* second time.
C11_Witness ==
    \E gid \in DOMAIN games :
        /\ games[gid].status = QUESTION_CLOSED
        /\ \E i \in DOMAIN games[gid].answers :
              LET a == games[gid].answers[i]
              IN /\ a.is_correct = "True"
                 /\ a.points_awarded = 1
                 /\ TeamOf(grade_answer(games[gid], a.team_id, a.question_round,
                                        a.question_num, "True", 1).game,
                           a.team_id).score
                      = TeamOf(games[gid], a.team_id).score + 1

\* ------------------------------------------------------------------------
\* One game in depth: any accepted question file, any integer points
\* ------------------------------------------------------------------------
\* Question files load_questions_from_csv accepts (positive numbers, texts
\* not empty): contiguous ones, and ones with a gap in the round numbers,
\* a gap in the question numbers, or a first round other than 1.
QuestionSets ==
    { << Question(1, 1, <<"x">>, <<"a">>), Question(1, 2, <<"y">>, <<"b">>) >>,
      << Question(1, 1, <<"x">>, <<"a">>), Question(2, 1, <<"y">>, <<"b">>) >>,
      << Question(1, 1, <<"x">>, <<"a">>), Question(3, 1, <<"y">>, <<"b">>) >>,
      << Question(1, 1, <<"x">>, <<"a">>), Question(1, 3, <<"y">>, <<"b">>) >>,
      << Question(2, 1, <<"x">>, <<"a">>) >> }

\* data["points"] of grade_answer is any integer the admin sends.
AnyPoints == {0 - 1, 0, 1}
CursorRounds == {1, 2}
CursorQuestions == {1, 2}

\* POST /api/create-game with a CSV file holding the given rows.
LoadGame(gid, rows) ==
    /\ gid \notin DOMAIN games
    /\ questions' = Put(questions, gid, rows)
    /\ games' = Put(games, gid, GameSession(AdminPassword(gid)))
    /\ UNCHANGED <<connections, game_connections, next_team_id, issued, presented,
                   inflight>>

RoundsNext ==
    \/ \E rows \in QuestionSets : LoadGame("g1", rows)
    \/ \E c \in Clients : connect_client(c)
    \/ \E c \in Clients : JoinGame(c, "g1", <<"a">>)
    \/ \E c \in Clients : AdminLogin(c, "g1", "p1")
    \/ \E c \in Clients : StartGame(c, "p1")
    \/ \E c \in Clients : StartQuestion(c, "p1")
    \/ \E c \in Clients : SubmitAnswer(c, <<"b">>)
    \/ \E c \in Clients : CloseQuestion(c, "p1")
    \/ \E c \in Clients, tid \in TeamIds, r \in CursorRounds,
          n \in CursorQuestions, ok \in GradeCorrect, p \in AnyPoints :
          GradeAnswer(c, tid, r, n, ok, p)
    \/ \E c \in Clients : NextQuestion(c, "p1")

RoundsSpec == Init /\ [][RoundsNext]_vars

\* C12: in every reachable state every team's score is at least 0, whatever
\* grade_answer events were sent, also with zero or negative points.
C12_ScoreNonNegative ==
    \A gid \in DOMAIN games :
        \A k \in DOMAIN games[gid].teams : games[gid].teams[k].score >= 0

LeastOf(S) == CHOOSE x \in S : \A y \in S : x <= y

\* The question numbers of the current round after the cursor, and the
\* rounds after the current one.
LaterQuestions(game, qs) ==
    { qs[i].question_num : i \in { j \in DOMAIN qs :
          /\ qs[j].round_num = game.current_round
          /\ qs[j].question_num > game.current_question } }

LaterRounds(game, qs) ==
    { qs[i].round_num : i \in { j \in DOMAIN qs :
          qs[j].round_num > game.current_round } }

\* C13: for every loaded question set, next_question on a closed question
\* moves the cursor to the next existing question number of the current
\* round if there is one, otherwise to question 1 of the next existing
\* round, sets status in_progress and returns the question at the new
\* cursor; it sets status finished and returns no question exactly when no
\* further question or round exists.
C13_NextQuestionAdvances ==
    \A gid \in DOMAIN games :
        games[gid].status = QUESTION_CLOSED
        => LET old == games[gid]
               qs == questions[gid]
               res == next_question(old, qs, old.admin_password)
               new == res.game
           IN /\ res.ok
              /\ IF LaterQuestions(old, qs) # {}
                 THEN /\ new.status = IN_PROGRESS
                      /\ new.current_round = old.current_round
                      /\ new.current_question = LeastOf(LaterQuestions(old, qs))
                      /\ res.ret # NoQuestion
                      /\ res.ret.round_num = new.current_round
                      /\ res.ret.question_num = new.current_question
                 ELSE IF LaterRounds(old, qs) # {}
                 THEN /\ new.status = IN_PROGRESS
                      /\ new.current_round = LeastOf(LaterRounds(old, qs))
                      /\ new.current_question = 1
                      /\ res.ret # NoQuestion
                      /\ res.ret.round_num = new.current_round
                      /\ res.ret.question_num = new.current_question
                 ELSE /\ new.status = FINISHED
                      /\ res.ret = NoQuestion

\* C14: a started game is never stuck: whenever its status is in_progress
\* the question store holds a question at the cursor, so that the admin's
\* start_question succeeds and the cycle start_question, close_question,
\* next_question can go on until the status is finished.
C14_NeverStuck ==
    \A gid \in DOMAIN games :
        games[gid].status = IN_PROGRESS
        => /\ get_question_by_round_and_num(
                  questions[gid], games[gid].current_round,
                  games[gid].current_question) # NoQuestion
           /\ start_question(games[gid], questions[gid],
                             games[gid].admin_password).ok

\* ------------------------------------------------------------------------
\* The lobby: several teams per game, before and at the start of a game
\* ------------------------------------------------------------------------
LobbyTeams == 2
LobbyNames == { <<"a">>, <<" ", "A">>, <<"b">>, <<" ">> }

JoinLobby(c, gid, team_name) ==
    /\ join_game(c, gid, team_name).next_team_id <= LobbyTeams + 1
    /\ Apply(join_game(c, gid, team_name))
    /\ UNCHANGED presented

LobbyNext ==
    \/ \E gid \in GameIds : CreateGame(gid)
    \/ \E c \in Clients : connect_client(c)
    \/ \E c \in Clients : disconnect_client(c)
    \/ \E c \in Clients, gid \in GameIds, n \in LobbyNames : JoinLobby(c, gid, n)
    \/ \E c \in Clients, gid \in GameIds, pw \in Passwords : AdminLogin(c, gid, pw)
    \/ \E c \in Clients, pw \in Passwords : StartGame(c, pw)

LobbySpec == Init /\ [][LobbyNext]_vars

\* Team names compared ignoring case and surrounding whitespace.
SameName(a, b) == Lower(Strip(a)) = Lower(Strip(b))

\* C15: no two teams of one game have names that are equal ignoring case
\* and surrounding whitespace; a join_game whose name collides this way
\* with a team of that game is refused with the name-collision error and
\* adds no team; the name of a team of another game does not collide.
C15_UniqueTeamNames ==
    /\ \A gid \in DOMAIN games :
         \A i, j \in DOMAIN games[gid].teams :
            SameName(games[gid].teams[i].name, games[gid].teams[j].name)
            => i = j
    /\ \A c \in DOMAIN connections, gid \in DOMAIN games, n \in LobbyNames :
         LET eff == join_game(c, gid, n)
             collides == \E i \in DOMAIN games[gid].teams :
                            SameName(games[gid].teams[i].name, n)
         IN /\ (games[gid].status = WAITING /\ collides)
                 => /\ Refused(eff)
                    /\ eff.out[1].data.message = "Team name already exists"
            /\ (games[gid].status = WAITING /\ ~collides /\ Strip(n) # <<>>)
                 => /\ ~IsError(eff.out)
                    /\ Len(eff.games[gid].teams) = Len(games[gid].teams) + 1

\* C15 witness: a waiting game has two teams; a client's join under the
\* name of one of them in another case and with blanks is refused, while
\* its join under that name in the other game, which is waiting too, is
\* accepted.
C15_Witness ==
    \E c \in DOMAIN connections, gid, other \in DOMAIN games :
        /\ gid # other
        /\ games[gid].status = WAITING /\ games[other].status = WAITING
        /\ Len(games[gid].teams) = 2
        /\ \E i \in DOMAIN games[gid].teams : games[gid].teams[i].name = <<"a">>
        /\ join_game(c, gid, <<" ", "A">>).out
             = <<Error("Team name already exists")>>
        /\ ~IsError(join_game(c, other, <<" ", "A">>).out)

\* The teams of a session, without their scores.
TeamSet(game) ==
    { <<game.teams[i].team_id, game.teams[i].name>> : i \in DOMAIN game.teams }

\* No step removes a game or a team, and a step from a status other than
\* waiting keeps the status away from waiting and the team set as it is.
TeamsKept ==
    \A gid \in DOMAIN games :
        /\ gid \in DOMAIN games'
        /\ TeamSet(games[gid]) \subseteq TeamSet(games'[gid])
        /\ games[gid].status # WAITING
             => /\ games'[gid].status # WAITING
                /\ TeamSet(games'[gid]) = TeamSet(games[gid])

\* A join_game of a connected client to a game that has left waiting is
\* refused, under a name that is taken in the game as under a new one.
LateJoinRefused ==
    \A c \in DOMAIN connections, gid \in DOMAIN games, n \in LobbyNames :
        games[gid].status # WAITING => Refused(join_game(c, gid, n))

\* C16: the team set of a game changes only by add_team while the status
\* is waiting: once the status has left waiting, join_game fails and the
\* team set is the same in every later state; no operation removes a team.
C16_TeamsOnlyAddedWhileWaiting == []LateJoinRefused /\ [][TeamsKept]_vars

\* C16 witness: a game with a team has gone through a question, and a
\* connected client's join_game to it under a name no team of it has is
\* refused because the game has started.
C16_Witness ==
    \E c \in DOMAIN connections, gid \in DOMAIN games :
        /\ games[gid].status = QUESTION_CLOSED
        /\ games[gid].teams # <<>>
        /\ ~NameTaken(games[gid], <<"b">>)
        /\ join_game(c, gid, <<"b">>).out
             = <<Error("Cannot add teams after game has started")>>

\* C17: start_game changes a session only when the password is the game's
\* admin password, the status is waiting and the game has a team, and then
\* only sets the status to in_progress; so every game whose status is not
\* waiting has at least one team.
C17_StartNeedsTeam ==
    /\ \A gid \in DOMAIN games :
          games[gid].status # WAITING => games[gid].teams # <<>>
    /\ \A c \in Clients, pw \in Passwords :
          LET eff == start_game_event(c, pw)
          IN eff.games # games
             => /\ InGame(c)
                /\ pw = GameOf(c).admin_password
                /\ GameOf(c).status = WAITING
                /\ GameOf(c).teams # <<>>
                /\ eff.games = [games EXCEPT
                                  ![connections[c].game_id].status = IN_PROGRESS]

\* C17 witness: one game has been started, and the admin of another game,
\* which is waiting and has no team, is refused start_game with the right
\* password.
C17_Witness ==
    \E c \in Clients, started \in DOMAIN games :
        /\ games[started].status = IN_PROGRESS
        /\ InGame(c)
        /\ connections[c].is_admin
        /\ GameOf(c).status = WAITING
        /\ GameOf(c).teams = <<>>
        /\ start_game_event(c, GameOf(c).admin_password).out
             = <<Error("Cannot start game with no teams")>>

\* C18: the membership sets of two different games are disjoint.
C18_MembershipsDisjoint ==
    \A gid, other \in DOMAIN game_connections :
        gid # other => game_connections[gid] \cap game_connections[other] = {}

\* C19: every member of every membership set is a connected client: after
\* its disconnect a client is in no game's membership set.
C19_MembersAreConnected ==
    \A gid \in DOMAIN game_connections :
        game_connections[gid] \subseteq DOMAIN connections

\* C20: a disconnect changes no session and no question set: status,
\* cursor, teams, scores and answers of every game are as before.
C20_DisconnectKeepsSessions ==
    [][\A c \in Clients :
          disconnect_client(c) => UNCHANGED <<games, questions>>]_vars

\* C20 witness: a team that has scored is held by no connected client (its
\* client has disconnected) and is still on its game's leaderboard with its
\* score.
C20_Witness ==
    \E gid \in DOMAIN games :
        \E k \in DOMAIN games[gid].teams :
            /\ games[gid].teams[k].score = 1
            /\ \A c \in DOMAIN connections :
                  connections[c].team_id # games[gid].teams[k].team_id
            /\ get_leaderboard(games[gid])[1] = games[gid].teams[k]

\* ------------------------------------------------------------------------
\* Reconnection
\* ------------------------------------------------------------------------
\* A team of the game that no connected client holds: its client is gone.
Orphaned(gid, k) ==
    \A c \in DOMAIN connections :
        connections[c].team_id # games[gid].teams[k].team_id

\* C21: a new connection can rejoin a waiting game under the name of a team
\* whose client has disconnected: join_game succeeds and the new client
\* holds that team.
C21_RejoinAfterRefresh ==
    \A gid \in DOMAIN games, c \in DOMAIN connections :
        \A k \in DOMAIN games[gid].teams :
            ( /\ games[gid].status = WAITING
              /\ Orphaned(gid, k)
              /\ connections[c].game_id = NoGame )
            => LET eff == join_game(c, gid, games[gid].teams[k].name)
               IN /\ ~IsError(eff.out)
                  /\ eff.connections[c].team_id = games[gid].teams[k].team_id

\* ------------------------------------------------------------------------
\* Who receives what
\* ------------------------------------------------------------------------
\* The positions of the messages of one type addressed to client m.
Addressed(msgs, type, m) ==
    { i \in DOMAIN msgs : /\ msgs[i].event_type = type
                          /\ HasTarget(msgs[i])
                          /\ msgs[i].data.target_client = m }

\* The members of a game, the empty set for a game without membership set.
MembersOf(gc, gid) == IF gid \in DOMAIN gc THEN gc[gid] ELSE {}

\* The question_closed copy m is that of a team member: its own answer and
\* correctness, the correct answer, the leaderboard, and no answer list.
TeamCopy(m, game, qs, board) ==
    LET tid == connections[m.data.target_client].team_id
        own == AnswersOf(game, tid, game.current_round, game.current_question)
        question == get_question_by_round_and_num(
                        qs, game.current_round, game.current_question)
    IN /\ DOMAIN m.data = {"correct_answer", "team_answer", "team_correct",
                           "leaderboard", "message", "target_client"}
       /\ m.data.correct_answer = question.answer
       /\ m.data.leaderboard = board
       /\ IF own = {}
          THEN m.data.team_answer = None /\ m.data.team_correct = "None"
          ELSE \E i \in own :
                  /\ m.data.team_answer = Some(game.answers[i].answer_text)
                  /\ m.data.team_correct = game.answers[i].is_correct

\* C22: a close_question that closes the question yields, for every member
\* of the game, exactly one question_closed and one leaderboard_update and
\* nothing else; the copy of a member without admin flag holds that team's
\* own answer and correctness, the correct answer and the leaderboard and
\* no answer list, only the copies of members with admin flag hold the
\* answer list, and every leaderboard in the messages is the same snapshot.
C22_CloseQuestionMessages ==
    \A c \in DOMAIN connections, pw \in Passwords :
        LET eff == close_question_event(c, pw)
            gid == connections[c].game_id
            members == MembersOf(game_connections, gid)
            board == leaderboard_data(get_leaderboard(eff.games[gid]))
        IN eff.games # games
           => /\ Len(eff.out) = 2 * Cardinality(members)
              /\ \A m \in members :
                    /\ Cardinality(Addressed(eff.out, "question_closed", m)) = 1
                    /\ Cardinality(Addressed(eff.out, "leaderboard_update", m)) = 1
              /\ \A i \in DOMAIN eff.out :
                    /\ eff.out[i].event_type = "leaderboard_update"
                         => eff.out[i].data.leaderboard = board
                    /\ eff.out[i].event_type = "question_closed"
                         => IF connections[eff.out[i].data.target_client].is_admin
                            THEN "answers" \in DOMAIN eff.out[i].data
                            ELSE TeamCopy(eff.out[i], eff.games[gid],
                                          questions[gid], board)

\* The messages of one type in eff.out are a broadcast to the game of
\* client c: one per member, each to a member, nobody twice.
BroadcastTo(eff, type, c) ==
    LET members == MembersOf(eff.game_connections, eff.connections[c].game_id)
    IN /\ \A m \in members : Cardinality(Addressed(eff.out, type, m)) = 1
       /\ \A i \in DOMAIN eff.out :
             eff.out[i].event_type = type
                => /\ HasTarget(eff.out[i])
                   /\ eff.out[i].data.target_client \in members

\* C23: an accepted join_game, start_game, start_question or grade_answer
\* and a next_question that finishes the game yield exactly one
\* team_list_update, game_started, question_started, answer_graded or
\* game_finished per current member of the acting client's game, each to a
\* distinct member and none to a client outside; join_game first returns
\* one team_joined to the joining client, who is among the addressees.
C23_BroadcastPerMember ==
    \A c \in DOMAIN connections :
        /\ \A gid \in GameIds, name \in LobbyNames :
              LET eff == join_game(c, gid, name)
              IN Accepted(eff)
                 => /\ BroadcastTo(eff, "team_list_update", c)
                    /\ eff.out[1].event_type = "team_joined"
                    /\ ~HasTarget(eff.out[1])
                    /\ Addressed(eff.out, "team_list_update", c) # {}
                    /\ Len(eff.out)
                         = 1 + Cardinality(MembersOf(eff.game_connections, gid))
        /\ \A pw \in Passwords :
              /\ LET eff == start_game_event(c, pw)
                 IN Accepted(eff) => BroadcastTo(eff, "game_started", c)
              /\ LET eff == start_question_event(c, pw)
                 IN Accepted(eff) => BroadcastTo(eff, "question_started", c)
              /\ LET eff == next_question_event(c, pw)
                 IN ( /\ Accepted(eff)
                      /\ eff.games[connections[c].game_id].status = FINISHED )
                    => BroadcastTo(eff, "game_finished", c)
        /\ \A tid \in TeamIds, r \in GradeRounds, n \in GradeQuestions,
              ok \in GradeCorrect, pts \in GradePoints :
              LET eff == grade_answer_event(c, tid, r, n, ok, pts)
              IN Accepted(eff) => BroadcastTo(eff, "answer_graded", c)

\* A message that goes to client c: it has no target or its target is c.
ToCaller(m, c) == HasTarget(m) => m.data.target_client = c

\* C24: an accepted admin_login yields exactly one success and one
\* team_list_update with the roster; an accepted next_question that does
\* not finish the game yields exactly one success with the new cursor; in
\* both cases every message goes to the caller.  A next_question that
\* finishes the game yields one game_finished with the final leaderboard
\* per member of the game and nothing else.
C24_CallerOnlyReplies ==
    \A c \in DOMAIN connections :
        /\ \A gid \in GameIds, pw \in Passwords :
              LET eff == admin_login(c, gid, pw)
              IN Accepted(eff)
                 => /\ Len(eff.out) = 2
                    /\ eff.out[1].event_type = "success"
                    /\ eff.out[2].event_type = "team_list_update"
                    /\ eff.out[2].data.teams = team_list(eff.games[gid])
                    /\ \A i \in DOMAIN eff.out : ToCaller(eff.out[i], c)
        /\ \A pw \in Passwords :
              LET eff == next_question_event(c, pw)
                  gid == connections[c].game_id
                  after == eff.games[gid]
              IN Accepted(eff)
                 => IF after.status = FINISHED
                    THEN /\ BroadcastTo(eff, "game_finished", c)
                         /\ \A i \in DOMAIN eff.out :
                               /\ eff.out[i].event_type = "game_finished"
                               /\ eff.out[i].data.final_leaderboard
                                    = leaderboard_data(get_leaderboard(after))
                    ELSE /\ Len(eff.out) = 1
                         /\ eff.out[1].event_type = "success"
                         /\ eff.out[1].data.current_round = after.current_round
                         /\ eff.out[1].data.current_question
                              = after.current_question
                         /\ <<after.current_round, after.current_question>>
                              # <<games[gid].current_round,
                                  games[gid].current_question>>
                         /\ ToCaller(eff.out[1], c)

\* C24 witness: the admin of a game with two members can finish it with
\* next_question, and the two messages are the two members' game_finished.
C24_Witness ==
    \E c \in DOMAIN connections, pw \in Passwords :
        LET eff == next_question_event(c, pw)
        IN /\ InGame(c)
           /\ eff.games[connections[c].game_id].status = FINISHED
           /\ GameOf(c).status = QUESTION_CLOSED
           /\ Len(eff.out) = 2
           /\ eff.out[1].data.target_client # eff.out[2].data.target_client

\* ------------------------------------------------------------------------
\* Independence of games
\* ------------------------------------------------------------------------
\* The effect keeps the registry's game ids and every session but gid's.
OthersKept(eff, gid) ==
    /\ DOMAIN eff.games = DOMAIN games
    /\ \A other \in DOMAIN games \ {gid} : eff.games[other] = games[other]

\* Every event leaves every game but the one it acts on as it is: the game
\* named in join_game and admin_login, the caller's game otherwise.
EventsKeepOtherGames ==
    \A c \in Clients :
        LET own == IF c \in DOMAIN connections
                   THEN connections[c].game_id ELSE NoGame
        IN /\ \A gid \in GameIds, name \in LobbyNames :
                 OthersKept(join_game(c, gid, name), gid)
           /\ \A gid \in GameIds, pw \in Passwords :
                 OthersKept(admin_login(c, gid, pw), gid)
           /\ \A pw \in Passwords :
                 /\ OthersKept(start_game_event(c, pw), own)
                 /\ OthersKept(start_question_event(c, pw), own)
                 /\ OthersKept(close_question_event(c, pw), own)
                 /\ OthersKept(next_question_event(c, pw), own)
           /\ \A text \in AnswerTexts :
                 OthersKept(submit_answer_event(c, text), own)
           /\ \A tid \in TeamIds, r \in GradeRounds, n \in GradeQuestions,
                 ok \in GradeCorrect, pts \in GradePoints :
                 OthersKept(grade_answer_event(c, tid, r, n, ok, pts), own)
           /\ OthersKept(get_leaderboard_event(c), own)
           /\ OthersKept(get_game_state_event(c), own)

\* A step changes the session of at most one game and removes none.
OneGamePerStep ==
    /\ DOMAIN games \subseteq DOMAIN games'
    /\ \A a, b \in DOMAIN games :
          a # b => games'[a] = games[a] \/ games'[b] = games[b]

\* C25: games are independent: an event leaves the status, cursor, teams,
\* scores and answers of every game other than the one it acts on
\* unchanged, and every step of the system (creation, connect, disconnect
\* and events) changes at most one game.
C25_GamesIndependent == []EventsKeepOtherGames /\ [][OneGamePerStep]_vars

\* C25 witness: a client's start_game is accepted in its own game while
\* another game, which has another connected client as member, is waiting.
C25_Witness ==
    \E c \in DOMAIN connections, pw \in Passwords, other \in DOMAIN games :
        /\ InGame(c)
        /\ other # connections[c].game_id
        /\ GameOf(c).status = WAITING
        /\ games[other].status = WAITING
        /\ (MembersOf(game_connections, other) \cap DOMAIN connections)
              \ {c} # {}
        /\ start_game_event(c, pw).games[connections[c].game_id].status
             = IN_PROGRESS

\* ------------------------------------------------------------------------
\* Queries
\* ------------------------------------------------------------------------
\* The effect changes nothing and is one message for the caller, of the
\* given type when the caller has a game and an error when it has none.
ReadOnlyReply(c, eff, type) ==
    /\ eff.games = games
    /\ eff.connections = connections
    /\ eff.game_connections = game_connections
    /\ eff.next_team_id = next_team_id
    /\ Len(eff.out) = 1
    /\ ~HasTarget(eff.out[1])
    /\ IF connections[c].game_id = NoGame
       THEN eff.out[1].event_type = "error"
       ELSE eff.out[1].event_type = type

\* C30: get_leaderboard and get_game_state change no session and nothing
\* of the directory, answer the caller alone with exactly one message (the
\* leaderboard of its game, the summary of its game), and that message is
\* an error when the caller is in no game.
C30_QueriesAreReadOnly ==
    \A c \in DOMAIN connections :
        LET board == get_leaderboard_event(c)
            state == get_game_state_event(c)
        IN /\ ReadOnlyReply(c, board, "leaderboard_update")
           /\ ReadOnlyReply(c, state, "success")
           /\ connections[c].game_id # NoGame
                => /\ board.out[1].data.leaderboard
                        = leaderboard_data(get_leaderboard(GameOf(c)))
                   /\ state.out[1].data.game_state
                        = get_game_summary(GameOf(c),
                                           questions[connections[c].game_id])

\* C30 witness: one client is in no game and is answered with the error,
\* while another is in a game with a team that has scored, and is
\* answered with the leaderboard.
C30_Witness ==
    \E c, d \in DOMAIN connections :
        /\ connections[c].game_id = NoGame
        /\ get_leaderboard_event(c).out = <<Error("Not in a game")>>
        /\ get_game_state_event(c).out = <<Error("Not in a game")>>
        /\ InGame(d)
        /\ get_leaderboard_event(d).out[1].data.leaderboard # <<>>
        /\ get_leaderboard_event(d).out[1].data.leaderboard[1].score > 0

\* ------------------------------------------------------------------------
\* Creation of games from question files
\* (QuestionManager.load_questions_from_csv, GameStateManager.create_game)
\* ------------------------------------------------------------------------
\* int(text): surrounding blanks and one sign are accepted, then digits.
Digits == <<"0", "1", "2", "3">>
IsDigit(ch) == \E d \in DOMAIN Digits : Digits[d] = ch
DigitValue(ch) == (CHOOSE d \in DOMAIN Digits : Digits[d] = ch) - 1

RECURSIVE Decimal(_)
Decimal(ds) ==
    IF ds = <<>> THEN 0
    ELSE 10 * Decimal(SubSeq(ds, 1, Len(ds) - 1)) + DigitValue(ds[Len(ds)])

ParseInt(text) ==
    LET t == Strip(text)
        signed == t # <<>> /\ t[1] \in {"-", "+"}
        body == IF signed THEN Tail(t) ELSE t
    IN IF body = <<>> \/ \E i \in DOMAIN body : ~IsDigit(body[i])
       THEN [ok |-> FALSE, value |-> 0]
       ELSE [ok |-> TRUE,
             value |-> IF signed /\ t[1] = "-"
                       THEN 0 - Decimal(body) ELSE Decimal(body)]

\* The column names the loader expects.
ColRound == <<"r", "o", "u", "n", "d", "_", "n", "u", "m">>
ColNumber == <<"q", "u", "e", "s", "t", "i", "o", "n", "_", "n", "u", "m">>
ColQuestion == <<"q", "u", "e", "s", "t", "i", "o", "n">>
ColAnswer == <<"a", "n", "s", "w", "e", "r">>
expected_columns == {ColRound, ColNumber, ColQuestion, ColAnswer}

\* A file: whether the path exists, the header line and the data rows, each
\* cell a raw text.
CsvFile(header, rows) == [exists |-> TRUE, header |-> header, rows |-> rows]
MissingFile == [exists |-> FALSE, header |-> <<>>, rows |-> <<>>]

PlainHeader == <<ColRound, ColNumber, ColQuestion, ColAnswer>>
PaddedHeader ==
    << <<" ">> \o ColRound, ColNumber \o <<" ">>, ColQuestion, ColAnswer >>

StoreFiles ==
    { MissingFile,
      CsvFile(<<ColRound, ColNumber, ColQuestion>>,
              << <<<<"1">>, <<"1">>, <<"x">>>> >>),
      CsvFile(PlainHeader, <<>>),
      CsvFile(PaddedHeader,
              << <<<<" ", "1">>, <<"1">>, <<" ", "x", " ">>, <<"a">>>>,
                 <<<<"1">>, <<"2", " ">>, <<"y">>, <<"b", " ">>>> >>),
      CsvFile(PlainHeader,
              << <<<<"1">>, <<"2">>, <<"y">>, <<"b">>>>,
                 <<<<"1">>, <<"1">>, <<"x">>, <<"a">>>>,
                 <<<<"2">>, <<"1">>, <<"z">>, <<"a">>>> >>),
      CsvFile(PlainHeader,
              << <<<<"1">>, <<"1">>, <<"x">>, <<"a">>>>,
                 <<<<"1">>, <<"1">>, <<"y">>, <<"b">>>> >>),
      CsvFile(PlainHeader,
              << <<<<"1">>, <<"1">>, <<"x">>, <<"a">>>>,
                 <<<<"1">>, <<"2">>, <<" ">>, <<"b">>>> >>),
      CsvFile(PlainHeader,
              << <<<<"0">>, <<"1">>, <<"x">>, <<"a">>>> >>),
      CsvFile(PlainHeader,
              << <<<<"1">>, <<"-", "1">>, <<"x">>, <<"a">>>> >>),
      CsvFile(PlainHeader,
              << <<<<"x">>, <<"1">>, <<"x">>, <<"a">>>> >>),
      CsvFile(PlainHeader,
              << <<<<"1">>, <<"1">>, <<"x">>>> >>) }

StoreIds == { <<"g">>, <<"h">>, <<" ">> }
StorePasswords == { <<"p">>, <<" ">>, <<>> }

\* Question.__post_init__: the error raised for the values, "" for none.
QuestionError(q) ==
    IF Strip(q.question) = <<>> THEN "Question cannot be empty"
    ELSE IF Strip(q.answer) = <<>> THEN "Answer cannot be empty"
    ELSE IF q.round_num <= 0 THEN "Round number must be positive"
    ELSE IF q.question_num <= 0 THEN "Question number must be positive"
    ELSE ""

\* cleaned_row[name] for one data row: the stripped cell under the column
\* whose stripped name is name (the last such column, as in a dict).
Cell(header, row, name) ==
    LET hits == { i \in DOMAIN header : Strip(header[i]) = name }
    IN Strip(row[CHOOSE i \in hits : \A j \in hits : j <= i])

\* One pass of the loop over the rows: the Question of a row, or the error.
ParseRow(header, row) ==
    LET round_num == ParseInt(Cell(header, row, ColRound))
        question_num == ParseInt(Cell(header, row, ColNumber))
        q == Question(round_num.value, question_num.value,
                      Cell(header, row, ColQuestion),
                      Cell(header, row, ColAnswer))
    IN IF Len(row) # Len(header)
       THEN [ok |-> FALSE, err |-> "Failed to load CSV", question |-> NoQuestion]
       ELSE IF ~round_num.ok \/ ~question_num.ok \/ QuestionError(q) # ""
       THEN [ok |-> FALSE, err |-> "Invalid question at row",
             question |-> NoQuestion]
       ELSE [ok |-> TRUE, err |-> "", question |-> q]

\* The row number in "Invalid question at row {idx + 2}", idx counting the
\* data rows from 0.
ReportedRow(idx) == idx + 2

\* The failure of the loop at the data row idx (counted from 0): the row
\* number is named for a row that fails validation only.
RowFailure(store, err, idx) ==
    [ok |-> FALSE, err |-> err,
     row |-> IF err = "Invalid question at row" THEN ReportedRow(idx) ELSE 0,
     store |-> store]

\* The store after load_questions_from_csv(game_id, file), or the error
\* raised (with the row number it names, 0 when it names none), the store
\* then being as given.
load_questions_from_csv(store, gid, file) ==
    LET Fail(msg) == [ok |-> FALSE, err |-> msg, row |-> 0, store |-> store]
        actual_columns == { Strip(file.header[i]) : i \in DOMAIN file.header }
        parsed == [i \in DOMAIN file.rows |-> ParseRow(file.header, file.rows[i])]
        bad == { i \in DOMAIN parsed : ~parsed[i].ok }
        first == CHOOSE i \in bad : \A j \in bad : i <= j
        loaded == [i \in DOMAIN parsed |-> parsed[i].question]
    IN IF ~file.exists THEN Fail("CSV file not found")
       ELSE IF ~(expected_columns \subseteq actual_columns)
       THEN Fail("CSV must contain columns")
       ELSE IF bad # {}
       THEN RowFailure(store, parsed[first].err, first - 1)
       ELSE IF loaded = <<>>
       THEN Fail("CSV file contains no valid questions")
       ELSE [ok |-> TRUE, err |-> "", row |-> 0,
             store |-> Put(store, gid, loaded)]

\* GameSession.__post_init__: the error raised for the values, "" for none.
GameSessionError(gid, pw) ==
    IF Strip(gid) = <<>> THEN "Game ID cannot be empty"
    ELSE IF Strip(pw) = <<>> THEN "Admin password cannot be empty"
    ELSE ""

\* GameStateManager.create_game: the registry and the store after the call
\* and whether it returned (ok) or raised (err).
create_game(registry, store, gid, file, pw) ==
    LET load == load_questions_from_csv(store, gid, file)
    IN IF gid \in DOMAIN registry
       THEN [ok |-> FALSE, err |-> "Game already exists",
             games |-> registry, questions |-> store]
       ELSE IF ~load.ok
       THEN [ok |-> FALSE, err |-> load.err,
             games |-> registry, questions |-> load.store]
       ELSE IF GameSessionError(gid, pw) # ""
       THEN [ok |-> FALSE, err |-> GameSessionError(gid, pw),
             games |-> registry, questions |-> load.store]
       ELSE [ok |-> TRUE, err |-> "",
             games |-> Put(registry, gid, GameSession(pw)),
             questions |-> load.store]

CreateGameFrom(gid, file, pw) ==
    LET r == create_game(games, questions, gid, file, pw)
    IN /\ games' = r.games
       /\ questions' = r.questions
       /\ UNCHANGED <<connections, game_connections, next_team_id,
                      issued, presented, inflight>>

StoreNext ==
    \E gid \in StoreIds, file \in StoreFiles, pw \in StorePasswords :
        CreateGameFrom(gid, file, pw)

StoreSpec == Init /\ [][StoreNext]_vars

\* C26: create_game is all-or-nothing: a create_game that fails adds no
\* session, leaves an existing session and question set of that id as they
\* are, and leaves no question set for an id without session; so the store
\* never holds a question set for an id that has no session.
C26_CreateAllOrNothing ==
    /\ DOMAIN questions \subseteq DOMAIN games
    /\ \A gid \in StoreIds, file \in StoreFiles, pw \in StorePasswords :
          LET r == create_game(games, questions, gid, file, pw)
          IN ~r.ok => /\ r.games = games
                      /\ gid \in DOMAIN games
                           => r.questions[gid] = questions[gid]
                      /\ DOMAIN r.questions \subseteq DOMAIN r.games

\* C28: no two questions of a loaded question set have the same
\* (round, number), and the number of questions of a round equals the
\* number of distinct question numbers in it.
C28_QuestionIdentityUnique ==
    \A gid \in DOMAIN questions :
        LET qs == questions[gid]
        IN /\ \A i, j \in DOMAIN qs :
                 ( /\ qs[i].round_num = qs[j].round_num
                   /\ qs[i].question_num = qs[j].question_num ) => i = j
           /\ \A r \in get_rounds_for_game(qs) :
                 Len(get_questions_for_round(qs, r))
                   = Cardinality({ qs[i].question_num :
                                     i \in { j \in DOMAIN qs :
                                               qs[j].round_num = r } })

\* part is whole with some elements left out, the order kept.
RECURSIVE IsSubSeq(_, _)
IsSubSeq(part, whole) ==
    IF part = <<>> THEN TRUE
    ELSE IF whole = <<>> THEN FALSE
    ELSE IF Head(part) = Head(whole) THEN IsSubSeq(Tail(part), Tail(whole))
    ELSE IsSubSeq(part, Tail(whole))

\* C27: for every file that loads, the loaded set has one question per data
\* row, get_question_by_round_and_num(round, number) of each loaded row
\* returns that row, and get_questions_for_round returns the rows of the
\* round in file order.
C27_LoadRoundTrip ==
    \A file \in StoreFiles :
        LET load == load_questions_from_csv(questions, <<"g">>, file)
            qs == load.store[<<"g">>]
        IN load.ok
           => /\ Len(qs) = Len(file.rows)
              /\ \A i \in DOMAIN qs :
                    get_question_by_round_and_num(
                        qs, qs[i].round_num, qs[i].question_num) = qs[i]
              /\ \A r \in get_rounds_for_game(qs) :
                    /\ IsSubSeq(get_questions_for_round(qs, r), qs)
                    /\ \A i \in DOMAIN qs :
                          qs[i].round_num = r
                            => \E k \in DOMAIN get_questions_for_round(qs, r) :
                                  get_questions_for_round(qs, r)[k] = qs[i]

\* ------------------------------------------------------------------------
\* One game with several scoring teams
\* ------------------------------------------------------------------------
BoardNames == { <<"a">>, <<"b">> }
BoardPoints == {1}

BoardNext ==
    \/ CreateGame("g2")
    \/ \E c \in Clients : connect_client(c)
    \/ \E c \in Clients, n \in BoardNames : JoinLobby(c, "g2", n)
    \/ \E c \in Clients : AdminLogin(c, "g2", "p2")
    \/ \E c \in Clients : StartGame(c, "p2")
    \/ \E c \in Clients : StartQuestion(c, "p2")
    \/ \E c \in Clients : SubmitAnswer(c, <<"b">>)
    \/ \E c \in Clients : CloseQuestion(c, "p2")
    \/ \E c \in Clients, tid \in 1..LobbyTeams, r \in GradeRounds,
          n \in GradeQuestions, ok \in GradeCorrect, p \in BoardPoints :
          GradeAnswer(c, tid, r, n, ok, p)
    \/ \E c \in Clients : NextQuestion(c, "p2")

BoardSpec == Init /\ [][BoardNext]_vars

\* board lists every team of the game exactly once, by score descending,
\* equal scores in the order in which the teams joined.
RanksTeams(board, game) ==
    /\ Len(board) = Len(game.teams)
    /\ \A k \in DOMAIN game.teams :
          Cardinality({ i \in DOMAIN board : board[i] = game.teams[k] }) = 1
    /\ \A i, j \in DOMAIN board :
          i < j => /\ board[i].score >= board[j].score
                   /\ board[i].score = board[j].score
                        => TeamIndex(game, board[i].team_id)
                             < TeamIndex(game, board[j].team_id)

\* C29: get_leaderboard returns every team of the game exactly once, by
\* score descending, teams of equal score in join order; and the
\* leaderboards sent by close_question and by the next_question that
\* finishes the game are that list, in that order.
C29_LeaderboardOrder ==
    /\ \A gid \in DOMAIN games :
          RanksTeams(get_leaderboard(games[gid]), games[gid])
    /\ \A c \in DOMAIN connections, pw \in Passwords :
          LET gid == connections[c].game_id
              closed == close_question_event(c, pw)
              next == next_question_event(c, pw)
          IN /\ \A i \in DOMAIN closed.out :
                   "leaderboard" \in DOMAIN closed.out[i].data
                     => closed.out[i].data.leaderboard
                          = leaderboard_data(get_leaderboard(closed.games[gid]))
             /\ \A i \in DOMAIN next.out :
                   next.out[i].event_type = "game_finished"
                     => next.out[i].data.final_leaderboard
                          = leaderboard_data(get_leaderboard(next.games[gid]))

\* C29 witness: both teams have scored, the team that joined second leads
\* the leaderboard, and a close_question of the active question sends it.
C29_Witness ==
    \E gid \in DOMAIN games :
        /\ Len(games[gid].teams) >= 2
        /\ games[gid].teams[2].score > games[gid].teams[1].score
        /\ games[gid].teams[1].score > 0
        /\ get_leaderboard(games[gid])[1] = games[gid].teams[2]
        /\ \E c \in DOMAIN connections :
              /\ connections[c].game_id = gid
              /\ games[gid].status = QUESTION_ACTIVE
              /\ \E i \in DOMAIN close_question_event(c, "p2").out :
                    close_question_event(c, "p2").out[i].event_type
                      = "leaderboard_update"

\* The positions in the data section of the rows of a file that fail
\* validation (a row with a missing cell is no validation failure).
InvalidRows(file) ==
    { i \in DOMAIN file.rows :
         ParseRow(file.header, file.rows[i]).err = "Invalid question at row" }

\* C34: when a data row fails validation the load fails, stores no question
\* set, and names the 1-based position of that row within the data section:
\* row 1 for the first row after the header.
C34_RowIndexInDataSection ==
    \A gid \in StoreIds, file \in StoreFiles :
        LET load == load_questions_from_csv(questions, gid, file)
        IN ( /\ file.exists
             /\ expected_columns
                  \subseteq { Strip(file.header[i]) : i \in DOMAIN file.header }
             /\ InvalidRows(file) # {}
             /\ \A i \in DOMAIN file.rows :
                   Len(file.rows[i]) = Len(file.header) )
           => /\ ~load.ok
              /\ load.store = questions
              /\ load.row \in InvalidRows(file)
              /\ \A i \in InvalidRows(file) : load.row <= i

\* ------------------------------------------------------------------------
\* Answers
\* ------------------------------------------------------------------------
\* Answers that are missing or empty (<<>>) or only whitespace.
BlankAnswers == { <<>>, <<" ">>, <<" ", " ">> }

\* C40: every recorded Answer has a non-empty text: a submit_answer whose
\* answer is missing, empty or only whitespace is answered with one error
\* and records nothing.
C40_NoBlankAnswer ==
    /\ \A gid \in DOMAIN games : \A i \in DOMAIN games[gid].answers :
          games[gid].answers[i].answer_text # <<>>
    /\ \A c \in DOMAIN connections, text \in BlankAnswers :
          LET eff == submit_answer_event(c, text)
          IN SingleError(eff.out) /\ eff.games = games

\* ------------------------------------------------------------------------
\* Teams and their clients
\* ------------------------------------------------------------------------
\* C39: a client creates at most one team: a join_game of a client that
\* already holds a team is answered with one error and creates no team; so
\* no game has more teams than there were clients.
C39_OneTeamPerClient ==
    /\ \A gid \in DOMAIN games : Len(games[gid].teams) <= Cardinality(issued)
    /\ \A c \in DOMAIN connections, gid \in GameIds, name \in LobbyNames :
          connections[c].team_id # NoTeam
            => LET eff == join_game(c, gid, name)
               IN /\ SingleError(eff.out)
                  /\ eff.games = games
                  /\ eff.connections = connections

\* ------------------------------------------------------------------------
\* Status and cursor
\* ------------------------------------------------------------------------
Cursor(game) == <<game.current_round, game.current_question>>

\* The effect leaves the status of every game as it is, or moves the status
\* of one along an edge of the set.
StatusMoves(eff, edges) ==
    /\ DOMAIN eff.games = DOMAIN games
    /\ \A gid \in DOMAIN games :
          \/ eff.games[gid].status = games[gid].status
          \/ <<games[gid].status, eff.games[gid].status>> \in edges

\* The effect changes neither the status nor the cursor of any game.
KeepsStatusAndCursor(eff) ==
    /\ StatusMoves(eff, {})
    /\ \A gid \in DOMAIN games : Cursor(eff.games[gid]) = Cursor(games[gid])

StatusEdges ==
    { <<WAITING, IN_PROGRESS>>, <<IN_PROGRESS, QUESTION_ACTIVE>>,
      <<QUESTION_ACTIVE, QUESTION_CLOSED>>, <<QUESTION_CLOSED, QUESTION_ACTIVE>>,
      <<QUESTION_CLOSED, IN_PROGRESS>>, <<QUESTION_CLOSED, FINISHED>> }

\* Each event moves the status only along its own edges.
EventsFollowEdges ==
    \A c \in Clients :
        /\ \A pw \in Passwords :
              /\ StatusMoves(start_game_event(c, pw),
                             { <<WAITING, IN_PROGRESS>> })
              /\ StatusMoves(start_question_event(c, pw),
                             { <<IN_PROGRESS, QUESTION_ACTIVE>>,
                               <<QUESTION_CLOSED, QUESTION_ACTIVE>> })
              /\ StatusMoves(close_question_event(c, pw),
                             { <<QUESTION_ACTIVE, QUESTION_CLOSED>> })
              /\ StatusMoves(next_question_event(c, pw),
                             { <<QUESTION_CLOSED, IN_PROGRESS>>,
                               <<QUESTION_CLOSED, FINISHED>> })
        /\ \A gid \in GameIds, name \in LobbyNames :
              KeepsStatusAndCursor(join_game(c, gid, name))
        /\ \A gid \in GameIds, pw \in Passwords :
              KeepsStatusAndCursor(admin_login(c, gid, pw))
        /\ \A text \in AnswerTexts \cup BlankAnswers :
              KeepsStatusAndCursor(submit_answer_event(c, text))
        /\ \A tid \in TeamIds, r \in GradeRounds, n \in GradeQuestions,
              ok \in GradeCorrect, pts \in GradePoints :
              KeepsStatusAndCursor(grade_answer_event(c, tid, r, n, ok, pts))
        /\ KeepsStatusAndCursor(get_leaderboard_event(c))
        /\ KeepsStatusAndCursor(get_game_state_event(c))

\* A step of the system moves the status of a game along an edge or not at
\* all, and connect and disconnect change no status and no cursor.
StepFollowsEdges ==
    /\ \A gid \in DOMAIN games :
          \/ games'[gid].status = games[gid].status
          \/ <<games[gid].status, games'[gid].status>> \in StatusEdges
    /\ \A c \in Clients :
          connect_client(c) \/ disconnect_client(c) => UNCHANGED games

\* C37: the status of a session moves only along waiting -> in_progress
\* (start_game), in_progress -> question_active and question_closed ->
\* question_active (start_question), question_active -> question_closed
\* (close_question), question_closed -> in_progress and question_closed ->
\* finished (next_question); join_game, admin_login, submit_answer,
\* grade_answer, the queries, connect and disconnect change neither status
\* nor cursor.
C37_StatusEdges == []EventsFollowEdges /\ [][StepFollowsEdges]_vars

\* C37 witness: a closed question with a recorded answer can be opened
\* again by start_question and can be left by next_question.
C37_Witness ==
    \E c \in DOMAIN connections, pw \in Passwords :
        /\ InGame(c)
        /\ GameOf(c).status = QUESTION_CLOSED
        /\ GameOf(c).answers # <<>>
        /\ start_question_event(c, pw).games[connections[c].game_id].status
             = QUESTION_ACTIVE
        /\ next_question_event(c, pw).games[connections[c].game_id].status
             \in {IN_PROGRESS, FINISHED}

\* (round, number) a is at or before (round, number) b.
AtOrBefore(a, b) == a[1] < b[1] \/ (a[1] = b[1] /\ a[2] <= b[2])

Exists(qs, r, n) == get_question_by_round_and_num(qs, r, n) # NoQuestion

\* The active cursor names a question, and every answer is of a team of
\* the game and to an existing question at or before the cursor.
AnswersWellFormed ==
    \A gid \in DOMAIN games :
        LET game == games[gid]
        IN /\ game.status = QUESTION_ACTIVE
                => Exists(questions[gid], game.current_round,
                          game.current_question)
           /\ \A i \in DOMAIN game.answers :
                 /\ game.answers[i].team_id \in TeamIdsOf(game)
                 /\ Exists(questions[gid], game.answers[i].question_round,
                           game.answers[i].question_num)
                 /\ AtOrBefore(<<game.answers[i].question_round,
                                 game.answers[i].question_num>>, Cursor(game))

\* A step keeps team and question of every recorded answer, and an answer
\* it adds is to the cursor of an active question.
AnswersAddedAtCursor ==
    \A gid \in DOMAIN games :
        LET old == games[gid].answers
            new == games'[gid].answers
        IN /\ Len(new) >= Len(old)
           /\ \A i \in DOMAIN old :
                 /\ new[i].team_id = old[i].team_id
                 /\ new[i].question_round = old[i].question_round
                 /\ new[i].question_num = old[i].question_num
           /\ \A i \in DOMAIN new \ DOMAIN old :
                 /\ games[gid].status = QUESTION_ACTIVE
                 /\ <<new[i].question_round, new[i].question_num>>
                      = Cursor(games[gid])

\* C38: whenever the status is question_active the cursor names a question
\* of the game's question set, and every recorded Answer refers to a team
\* of the game and to an existing question that was the cursor when the
\* answer was submitted and is at or before the current cursor.
C38_CursorAndAnswersValid ==
    []AnswersWellFormed /\ [][AnswersAddedAtCursor]_vars

\* C38 witness: a question file with a gap has been played past its first
\* question: an answer to (1,1) is recorded, the cursor is beyond it at a
\* position without question, and start_question is refused there.
C38_Witness ==
    \E gid \in DOMAIN games, c \in DOMAIN connections :
        /\ games[gid].answers # <<>>
        /\ Cursor(games[gid]) # <<1, 1>>
        /\ ~Exists(questions[gid], games[gid].current_round,
                   games[gid].current_question)
        /\ connections[c].game_id = gid
        /\ connections[c].is_admin
        /\ IsError(start_question_event(c, games[gid].admin_password).out)

\* ------------------------------------------------------------------------
\* Scope of the admin flag
\* ------------------------------------------------------------------------
\* C35: admin rights are scoped to one game: a connection with the admin
\* flag and game G has presented G's admin password, and a join_game to a
\* game whose password the client never presented leaves the client
\* without admin flag in that game, so that it gets no admin copy of the
\* game's messages and cannot grade in it.
C35_AdminScopedToGame ==
    /\ \A c \in DOMAIN connections :
          (connections[c].is_admin /\ connections[c].game_id \in DOMAIN games)
            => connections[c].game_id \in presented[c]
    /\ \A c \in DOMAIN connections, gid \in DOMAIN games, name \in LobbyNames :
          LET eff == join_game(c, gid, name)
          IN (gid \notin presented[c] /\ eff.connections[c].game_id = gid)
                => ~eff.connections[c].is_admin

\* ------------------------------------------------------------------------
\* Answers after the correct answer is out
\* ------------------------------------------------------------------------
\* The question at cursor rq of game gid is closed and its question_closed,
\* which carries the correct answer, went to a client of team tid: a
\* connected member of the game without admin flag that holds the team
\* (close_question reaches every member when none is missing).
ToldAnswer(gid, tid, rq) ==
    /\ gid \in DOMAIN games
    /\ games[gid].status = QUESTION_CLOSED
    /\ Cursor(games[gid]) = rq
    /\ tid \in TeamIdsOf(games[gid])
    /\ ~MissingMember(gid)
    /\ \E t \in DOMAIN connections :
          /\ t \in MembersOf(game_connections, gid)
          /\ connections[t].game_id = gid
          /\ connections[t].team_id = tid
          /\ ~connections[t].is_admin

\* A submit_answer of a client of team tid to question rq of game gid
\* would be accepted now.
SubmitAccepted(gid, tid, rq) ==
    /\ gid \in DOMAIN games
    /\ Cursor(games[gid]) = rq
    /\ \E t \in DOMAIN connections, text \in AnswerTexts :
          /\ connections[t].game_id = gid
          /\ connections[t].team_id = tid
          /\ ~IsError(submit_answer_event(t, text).out)

\* C36: once close_question has sent a team the question_closed with the
\* correct answer of question (r, q), no later submit_answer of that team
\* for (r, q) is accepted, also after another start_question: no step
\* leads from a state where the team holds the revealed answer of (r, q)
\* to a state where its submit_answer for (r, q) would be accepted.
C36_NoAnswerAfterReveal ==
    [][\A gid \in GameIds, tid \in 1..LobbyTeams,
          r \in CursorRounds, q \in CursorQuestions :
          ToldAnswer(gid, tid, <<r, q>>)
              => ~SubmitAccepted(gid, tid, <<r, q>>)']_vars

\* ------------------------------------------------------------------------
\* Delivery of the messages to sockets (app.py)
\* ------------------------------------------------------------------------
\* The socket handlers that emit only messages with a target that has a
\* socket, and those that emit every message to the calling socket.
TargetedOnly == {"start_game", "start_question", "close_question", "grade_answer"}
CallerOnly == {"admin_login", "get_leaderboard"}

\* The clients on whose socket message m, returned for an event of client
\* c, is emitted.  client_to_socket has the clients of the directory.
Recipients(event, c, m) ==
    IF event \in CallerOnly THEN {c}
    ELSE IF HasTarget(m) /\ m.data.target_client \in DOMAIN connections
    THEN {m.data.target_client}
    ELSE IF event \in TargetedOnly THEN {} ELSE {c}

\* The client a message is addressed to.
Addressee(c, m) == IF HasTarget(m) THEN m.data.target_client ELSE c

\* Every message of the effect is emitted to its addressee when that client
\* has a socket, and to nobody else.
DeliveredToAddressee(event, c, eff) ==
    \A i \in DOMAIN eff.out :
        Recipients(event, c, eff.out[i])
          = {Addressee(c, eff.out[i])} \cap DOMAIN connections

\* C33: every outbound message is delivered on the connection of the client
\* it is addressed to (its target, or the originating client when it has
\* none, as every error) and on no other: errors answering start_game,
\* start_question, close_question and grade_answer reach the originating
\* client, and a message for a client whose connection is gone is not
\* delivered to the originating client instead.
C33_DeliveredToAddressee ==
    \A c \in DOMAIN connections :
        /\ \A gid \in GameIds, name \in LobbyNames :
              DeliveredToAddressee("join_game", c, join_game(c, gid, name))
        /\ \A gid \in GameIds, pw \in Passwords :
              DeliveredToAddressee("admin_login", c, admin_login(c, gid, pw))
        /\ \A pw \in Passwords :
              /\ DeliveredToAddressee("start_game", c, start_game_event(c, pw))
              /\ DeliveredToAddressee("start_question", c,
                                      start_question_event(c, pw))
              /\ DeliveredToAddressee("close_question", c,
                                      close_question_event(c, pw))
              /\ DeliveredToAddressee("next_question", c,
                                      next_question_event(c, pw))
        /\ \A text \in AnswerTexts :
              DeliveredToAddressee("submit_answer", c,
                                   submit_answer_event(c, text))
        /\ \A tid \in TeamIds, r \in GradeRounds, n \in GradeQuestions,
              ok \in GradeCorrect, pts \in GradePoints :
              DeliveredToAddressee("grade_answer", c,
                                   grade_answer_event(c, tid, r, n, ok, pts))
        /\ DeliveredToAddressee("get_leaderboard", c, get_leaderboard_event(c))
        /\ DeliveredToAddressee("get_game_state", c, get_game_state_event(c))

\* ------------------------------------------------------------------------
\* Concurrent events.  app.py creates SocketIO(app, ...) without async_mode
\* and runs it on the werkzeug server: every received event is served by a
\* thread of its own, and neither app.py nor the managers take a lock.  A
\* handler is therefore a sequence of steps that other handlers and
\* disconnect_client interleave with.  The steps below cut the handlers at
\* the points the claims are about: between submit_answer's duplicate check
\* and its append, between the session change and the broadcast loop, and
\* at every iteration of the loop.
\* ------------------------------------------------------------------------
RaceNames == { <<"a">> }
RaceTexts == { <<"b">> }
RaceTeamClients == {"c1"}
RaceAdminClients == {"c2"}
LoopEvents == {"start_question", "close_question"}

Others == <<questions, games, connections, game_connections, next_team_id,
            issued, presented>>

Serving(event, c, text) ==
    [pc |-> "checked", event |-> event, client |-> c,
     game_id |-> connections[c].game_id, team_id |-> connections[c].team_id,
     text |-> text, members |-> {}, visited |-> {}, target |-> c,
     targets |-> {}]

\* _handle_submit_answer up to and including the checks of
\* GameStateManager.submit_answer (status, team, existing answer).
SubmitCheck(t, c, text) ==
    /\ inflight[t] = Idle
    /\ c \in DOMAIN connections
    /\ connections[c].team_id # NoTeam
    /\ text # <<>>
    /\ connections[c].game_id \in DOMAIN games
    /\ submit_answer(games[connections[c].game_id], connections[c].team_id,
                     text).ok
    /\ inflight' = [inflight EXCEPT ![t] = Serving("submit_answer", c, text)]
    /\ UNCHANGED Others

\* submit_answer, the rest: the Answer is built from the cursor as it is
\* now and appended.
SubmitAppend(t) ==
    /\ inflight[t].pc = "checked"
    /\ LET f == inflight[t]
           game == games[f.game_id]
           answer == Answer(f.team_id, game.current_round,
                            game.current_question, Strip(f.text))
       IN games' = [games EXCEPT ![f.game_id].answers = Append(@, answer)]
    /\ inflight' = [inflight EXCEPT ![t].pc = "changed"]
    /\ UNCHANGED <<questions, connections, game_connections, next_team_id,
                   issued, presented>>

\* _handle_start_question and _handle_close_question up to the return of
\* the GameStateManager call, which changes the session.
BroadcastBegin(t, c, event, pw) ==
    /\ inflight[t] = Idle
    /\ c \in DOMAIN connections
    /\ AdminAccess(connections[c])
    /\ connections[c].game_id \in DOMAIN games
    /\ LET gid == connections[c].game_id
           r == IF event = "start_question"
                THEN start_question(games[gid], questions[gid], pw)
                ELSE close_question(games[gid], pw)
       IN /\ r.ok
          /\ games' = [games EXCEPT ![gid] = r.game]
    /\ inflight' = [inflight EXCEPT ![t] =
                       [Serving(event, c, <<>>) EXCEPT !.pc = "changed"]]
    /\ presented' = PresentingToOwnGame(c, pw)
    /\ UNCHANGED <<questions, connections, game_connections, next_team_id,
                   issued>>

\* "for target_client_id in self.game_connections[game_id]": the lookup of
\* the set (KeyError when the last member has gone) and the creation of its
\* iterator.
LoopStart(t) ==
    /\ inflight[t].pc = "changed"
    /\ LET f == inflight[t]
       IN inflight' = [inflight EXCEPT ![t] =
             IF f.game_id \notin DOMAIN game_connections
             THEN [f EXCEPT !.pc = "raised"]
             ELSE [f EXCEPT !.pc = "loop",
                            !.members = game_connections[f.game_id]]]
    /\ UNCHANGED Others

\* The set as the iterator of thread t sees it.
IteratedSet(t) ==
    IF inflight[t].game_id \in DOMAIN game_connections
    THEN game_connections[inflight[t].game_id] ELSE {}

\* One next() of the set iterator.  It raises RuntimeError ("Set changed
\* size during iteration") when the size differs from the size at the start
\* of the loop.  With the same size and other members the iterator's set
\* either is the emptied one (the key was deleted and created again) or has
\* lost and gained a member: both outcomes are possible.
LoopNext(t) ==
    /\ inflight[t].pc = "loop"
    /\ LET f == inflight[t]
           now == IteratedSet(t)
           raised == [f EXCEPT !.pc = "raised"]
       IN \/ /\ now # f.members
             /\ inflight' = [inflight EXCEPT ![t] = raised]
          \/ /\ Cardinality(now) = Cardinality(f.members)
             /\ \E target \in now \ f.visited :
                    inflight' = [inflight EXCEPT ![t] =
                        [f EXCEPT !.pc = "body", !.target = target,
                                  !.visited = @ \cup {target}]]
          \/ /\ Cardinality(now) = Cardinality(f.members)
             /\ now \ f.visited = {}
             /\ inflight' = [inflight EXCEPT ![t] = [f EXCEPT !.pc = "built"]]
    /\ UNCHANGED Others

\* The body of the loop: self.connections[target_client_id] (KeyError when
\* the target has gone), then the message for the target; submit_answer
\* notifies the admins only.
LoopBody(t) ==
    /\ inflight[t].pc = "body"
    /\ LET f == inflight[t]
       IN inflight' = [inflight EXCEPT ![t] =
             IF f.target \notin DOMAIN connections
             THEN [f EXCEPT !.pc = "raised"]
             ELSE IF f.event = "submit_answer" /\ ~connections[f.target].is_admin
             THEN [f EXCEPT !.pc = "loop"]
             ELSE [f EXCEPT !.pc = "loop", !.targets = @ \cup {f.target}]]
    /\ UNCHANGED Others

\* handle_message returns the messages and app.py emits them.
Deliver(t) ==
    /\ inflight[t].pc = "built"
    /\ inflight' = [inflight EXCEPT ![t] = Idle]
    /\ UNCHANGED Others

\* handle_message catches the exception and returns a single error.
Fail(t) ==
    /\ inflight[t].pc = "raised"
    /\ inflight' = [inflight EXCEPT ![t] = Idle]
    /\ UNCHANGED Others

RaceNext ==
    \/ CreateGame("g2")
    \/ \E c \in Clients : connect_client(c)
    \/ \E c \in Clients : disconnect_client(c)
    \/ \E c \in RaceTeamClients, n \in RaceNames : JoinLobby(c, "g2", n)
    \/ \E c \in RaceAdminClients : AdminLogin(c, "g2", "p2")
    \/ \E c \in RaceAdminClients : StartGame(c, "p2")
    \/ \E t \in Threads, c \in RaceAdminClients, e \in LoopEvents :
          BroadcastBegin(t, c, e, "p2")
    \/ \E t \in Threads, c \in RaceTeamClients, text \in RaceTexts :
          SubmitCheck(t, c, text)
    \/ \E t \in Threads : SubmitAppend(t)
    \/ \E t \in Threads : LoopStart(t)
    \/ \E t \in Threads : LoopNext(t)
    \/ \E t \in Threads : LoopBody(t)
    \/ \E t \in Threads : Deliver(t)
    \/ \E t \in Threads : Fail(t)

RaceSpec == Init /\ [][RaceNext]_vars

\* C31: when several submit_answer events of one team for one question are
\* served concurrently, at most one of them is accepted: the session never
\* holds two answers of the same team for the same (round, question).
C31_ConcurrentSubmitsOnce ==
    \A gid \in DOMAIN games :
        \A i, j \in DOMAIN games[gid].answers :
            LET a == games[gid].answers[i]
                b == games[gid].answers[j]
            IN (/\ a.team_id = b.team_id
                /\ a.question_round = b.question_round
                /\ a.question_num = b.question_num) => i = j

\* A thread serving start_question, submit_answer or close_question has
\* raised: its session change is kept and the caller gets an error.
FailedAfterChange(t) ==
    /\ inflight[t].pc = "raised"
    /\ inflight[t].event \in LoopEvents \cup {"submit_answer"}

\* C32: a disconnect served concurrently with start_question, submit_answer
\* or close_question never makes the event fail after it has changed the
\* session, and the event never delivers a message addressed to a client
\* that is absent from the connection directory.
C32_DisconnectDuringBroadcast ==
    /\ [](\A t \in Threads : ~FailedAfterChange(t))
    /\ [][\A t \in Threads :
            Deliver(t) => inflight[t].targets \subseteq DOMAIN connections]_vars

====
